---- MODULE Spec2Model ----
(***************************************************************************)
(* The Redmine source connector (airweave/platform/sources/redmine.py) as  *)
(* a state machine: one connector instance, one consumer that iterates     *)
(* generate_entities() or calls validate(), and a Redmine server that      *)
(* answers every request with a page, a document or a failure.             *)
(*                                                                         *)
(* Text is a sequence of one-character strings, a JSON object is a record  *)
(* whose optional keys may be missing (dict.get is Get), and a Python      *)
(* value of the configuration is a tagged record (PyNone, PyBool, PyList). *)
(***************************************************************************)
EXTENDS Integers, Sequences, FiniteSets, TLC

(***************************************************************************)
(* Program constants.                                                      *)
(***************************************************************************)
limit == 100
MaxAttempts == 5
PreviewLen == 50

(***************************************************************************)
(* Bounds of the model: how many records (projects, issues, journals,      *)
(* attachments, wiki index entries) the server hands out in one run, and   *)
(* how many of them one response carries at most.                          *)
(***************************************************************************)
Budget == 4
MaxJournals == 2
MaxAttachments == 2
MaxWikiTitles == 2
MaxPageLen == 2

(***************************************************************************)
(* Python values.                                                          *)
(***************************************************************************)
PyNone == [py |-> "None"]
PyBool(b) == [py |-> "bool", val |-> b]
PyList(l) == [py |-> "list", items |-> l]

\* bool(v) for the values a configuration holds
Truthy(v) ==
  CASE v.py = "None" -> FALSE
    [] v.py = "bool" -> v.val
    [] v.py = "list" -> v.items # <<>>

\* d.get(k, default)
Get(d, k, default) == IF k \in DOMAIN d THEN d[k] ELSE default

\* bool(d.get(k)) for a text field: missing and empty are both falsy
HasText(d, k) == k \in DOMAIN d /\ d[k] # <<>>

\* str.lower() that leaves every character as it is
Lower_KeepsCase(s) == s

LowerChar(c) ==
  CASE c = "A" -> "a"
    [] c = "B" -> "b"
    [] c = "C" -> "c"
    [] OTHER -> c

\* str.lower()
Lower(s) == [i \in 1..Len(s) |-> LowerChar(s[i])]

\* the elements of a sequence
Range(s) == {s[i] : i \in 1..Len(s)}

Min(a, b) == IF a <= b THEN a ELSE b

(***************************************************************************)
(* Entity identifiers and entities.  f"project-{id}" is EntityId("project",*)
(* id, <<>>); f"wiki-{project_id}-{title}" is EntityId("wiki", id, title). *)
(***************************************************************************)
EntityId(kind, n, title) == [k |-> kind, n |-> n, t |-> title]

Breadcrumb(entity_id, name, entity_type) ==
  [entity_id |-> entity_id, name |-> name, entity_type |-> entity_type]

DigitChar(d) ==
  CASE d = 0 -> "0" [] d = 1 -> "1" [] d = 2 -> "2" [] d = 3 -> "3" [] d = 4 -> "4"
    [] d = 5 -> "5" [] d = 6 -> "6" [] d = 7 -> "7" [] d = 8 -> "8" [] OTHER -> "9"

RECURSIVE Decimal(_)
\* str(n) for n >= 0
Decimal(n) == IF n < 10 THEN <<DigitChar(n)>> ELSE Decimal(n \div 10) \o <<DigitChar(n % 10)>>

\* the word an identifier starts with
KindText(kind) ==
  CASE kind = "project" -> <<"p", "r", "o", "j", "e", "c", "t">>
    [] kind = "issue" -> <<"i", "s", "s", "u", "e">>
    [] kind = "journal" -> <<"j", "o", "u", "r", "n", "a", "l">>
    [] kind = "attachment" -> <<"a", "t", "t", "a", "c", "h", "m", "e", "n", "t">>
    [] kind = "wiki" -> <<"w", "i", "k", "i">>

\* identifiers of wiki pages formed from the title alone
Format_WikiByTitle(entity_id) ==
  IF entity_id.k = "wiki"
  THEN KindText(entity_id.k) \o <<"-">> \o entity_id.t
  ELSE KindText(entity_id.k) \o <<"-">> \o Decimal(entity_id.n)

\* the text of an identifier: f"issue-{id}", f"wiki-{project_id}-{title}"
Format(entity_id) ==
  IF entity_id.k = "wiki"
  THEN KindText(entity_id.k) \o <<"-">> \o Decimal(entity_id.n) \o <<"-">> \o entity_id.t
  ELSE KindText(entity_id.k) \o <<"-">> \o Decimal(entity_id.n)

\* f"Issue #{issue_id}"
IssueLabel(issue_id) == <<"I", "s", "s", "u", "e", " ", "#">> \o Decimal(issue_id)

_create_project_entity(project_data) ==
  [kind |-> "project",
   entity_id |-> EntityId("project", project_data.id, <<>>),
   breadcrumbs |-> <<>>,
   name |-> IF HasText(project_data, "name") THEN project_data.name
            ELSE project_data.identifier,
   project_id |-> project_data.id,
   identifier |-> project_data.identifier]

\* an issue filed under the project its raw record names
_create_issue_entity_UnderNamedProject(issue_data, project) ==
  LET project_info == Get(issue_data, "project", [x \in {} |-> x]) IN
  [kind |-> "issue",
   entity_id |-> EntityId("issue", issue_data.id, <<>>),
   breadcrumbs |-> <<Breadcrumb(EntityId("project", project_info.id, <<>>),
                                project_info.name, "RedmineProjectEntity")>>,
   name |-> IF HasText(issue_data, "subject") THEN issue_data.subject
            ELSE IssueLabel(issue_data.id),
   issue_id |-> issue_data.id,
   subject |-> Get(issue_data, "subject", <<>>),
   project_id |-> project_info.id,
   project_name |-> Get(project_info, "name", PyNone)]

_create_issue_entity(issue_data, project) ==
  LET project_info == Get(issue_data, "project", [x \in {} |-> x]) IN
  [kind |-> "issue",
   entity_id |-> EntityId("issue", issue_data.id, <<>>),
   breadcrumbs |-> <<Breadcrumb(project.entity_id, project.name, "RedmineProjectEntity")>>,
   name |-> IF HasText(issue_data, "subject") THEN issue_data.subject
            ELSE IssueLabel(issue_data.id),
   issue_id |-> issue_data.id,
   subject |-> Get(issue_data, "subject", <<>>),
   project_id |-> project.project_id,
   project_name |-> Get(project_info, "name", PyNone)]

_create_wiki_page_entity(wiki_data, project_id, project_name, project_entity_id) ==
  LET title == Get(wiki_data, "title", <<>>) IN
  [kind |-> "wiki",
   entity_id |-> EntityId("wiki", project_id, title),
   breadcrumbs |-> <<Breadcrumb(project_entity_id, project_name, "RedmineProjectEntity")>>,
   name |-> title,
   title |-> title,
   project_id |-> project_id]

\* the preview cut one character early: notes of 50 characters are cut too
JournalName_CutsAtFifty(notes) ==
  IF notes # <<>>
  THEN IF Len(notes) >= PreviewLen
       THEN SubSeq(notes, 1, PreviewLen) \o <<".", ".", ".">>
       ELSE notes
  ELSE <<"C", "h", "a", "n", "g", "e", " ", "l", "o", "g", " ", "e", "n", "t", "r", "y">>

\* notes[:50] + "..." if len(notes) > 50 else notes
JournalName(notes) ==
  IF notes # <<>>
  THEN IF Len(notes) > PreviewLen
       THEN SubSeq(notes, 1, PreviewLen) \o <<".", ".", ".">>
       ELSE notes
  ELSE <<"C", "h", "a", "n", "g", "e", " ", "l", "o", "g", " ", "e", "n", "t", "r", "y">>

\* a journal whose breadcrumb is built from the journal's own id
_create_journal_entity_UnderItself(journal_data, issue_id, issue_entity_id) ==
  LET notes == Get(journal_data, "notes", <<>>) IN
  [kind |-> "journal",
   entity_id |-> EntityId("journal", journal_data.id, <<>>),
   breadcrumbs |-> <<Breadcrumb(EntityId("issue", journal_data.id, <<>>),
                                IssueLabel(journal_data.id), "RedmineIssueEntity")>>,
   name |-> JournalName(notes),
   journal_id |-> journal_data.id,
   notes |-> notes,
   issue_id |-> issue_id]

_create_journal_entity(journal_data, issue_id, issue_entity_id) ==
  LET notes == Get(journal_data, "notes", <<>>) IN
  [kind |-> "journal",
   entity_id |-> EntityId("journal", journal_data.id, <<>>),
   breadcrumbs |-> <<Breadcrumb(issue_entity_id, IssueLabel(issue_id), "RedmineIssueEntity")>>,
   name |-> JournalName(notes),
   journal_id |-> journal_data.id,
   notes |-> notes,
   issue_id |-> issue_id]

_create_attachment_entity(attachment_data, issue_id, issue_entity_id) ==
  LET filename == Get(attachment_data, "filename", <<>>) IN
  [kind |-> "attachment",
   entity_id |-> EntityId("attachment", attachment_data.id, <<>>),
   breadcrumbs |-> <<Breadcrumb(issue_entity_id, IssueLabel(issue_id), "RedmineIssueEntity")>>,
   name |-> filename,
   attachment_id |-> attachment_data.id,
   filename |-> filename,
   issue_id |-> issue_id]

(***************************************************************************)
(* The configuration dictionary.  A key given as Absent is left out.       *)
(***************************************************************************)
Absent == [py |-> "absent"]

Dict(full) == [k \in {key \in DOMAIN full : full[key] # Absent} |-> full[k]]

MkConfig(f, c, a, w) ==
  Dict([project_identifiers |-> f, include_closed_issues |-> c,
        include_attachments |-> a, include_wiki_pages |-> w])

Filters == {Absent, PyList(<< <<"a">> >>), PyList(<< <<"B">>, <<"z">> >>), PyList(<< <<"z">> >>)}

\* the configurations explored: every setting of the two inclusion switches
\* without a filter, every filter with the wiki pages switched on, the falsy
\* filters, and the switches left out, with every setting of
\* include_closed_issues
Configs ==
  {MkConfig(Absent, Absent, PyBool(a), PyBool(w)) : a \in BOOLEAN, w \in BOOLEAN}
  \cup {MkConfig(f, Absent, PyBool(FALSE), PyBool(TRUE)) : f \in Filters \ {Absent}}
  \cup {MkConfig(f, Absent, PyBool(TRUE), PyBool(FALSE)) : f \in {PyNone, PyList(<<>>)}}
  \cup {MkConfig(Absent, c, Absent, Absent) : c \in {Absent, PyBool(TRUE), PyBool(FALSE)}}

\* the arguments of create(): the usual key and base URL with every
\* configuration, and with one quiet configuration a base URL that ends in
\* slashes, is nothing but a slash, is empty or is missing, no configuration
\* at all, and an empty key
UsualKey == <<"k">>

UsualUrl == <<"h", "/", "r">>

WithBaseUrl(cfg, url) == [base_url |-> url] @@ cfg

QuietConfig == MkConfig(Absent, Absent, PyBool(FALSE), PyBool(FALSE))

CreateArgs ==
  {[api_key |-> UsualKey, config |-> WithBaseUrl(cfg, UsualUrl)] : cfg \in Configs}
  \cup {[api_key |-> UsualKey, config |-> WithBaseUrl(QuietConfig, url)] :
          url \in {UsualUrl \o <<"/">>, UsualUrl \o <<"/", "/">>, <<"/">>, <<>>}}
  \cup {[api_key |-> UsualKey, config |-> cfg] :
          cfg \in {PyNone, QuietConfig, MkConfig(Absent, Absent, Absent, Absent)}}
  \cup {[api_key |-> <<>>, config |-> WithBaseUrl(QuietConfig, UsualUrl)]}

\* instance.base_url before create() has set it
NoUrl == <<"unset">>

\* a strip that removes one trailing slash only
RStrip_OneSlash(s) ==
  IF s # <<>> /\ s[Len(s)] = "/" THEN SubSeq(s, 1, Len(s) - 1) ELSE s

RECURSIVE RStrip(_)
\* str.rstrip("/")
RStrip(s) ==
  IF s # <<>> /\ s[Len(s)] = "/" THEN RStrip(SubSeq(s, 1, Len(s) - 1)) ELSE s

\* the headers of every request
Headers(key) == [X_Redmine_API_Key |-> key, Accept |-> "application/json"]

(***************************************************************************)
(* What the server holds.  The k-th project of the listing, the j-th issue *)
(* of a project, and so on, are fixed records; the server chooses how many *)
(* there are, how it cuts them into pages, the note of each journal, the   *)
(* title of each wiki page, and when a request fails.                      *)
(***************************************************************************)
Idents == << <<"A">>, <<"b">>, <<"C">>, <<"d">> >>

ProjectRecord(k) ==
  LET ident == Idents[((k - 1) % Len(Idents)) + 1] IN
  IF k % 2 = 1
  THEN [id |-> k, identifier |-> ident, name |-> <<"P">> \o Decimal(k)]
  ELSE [id |-> k, identifier |-> ident]

\* the j-th issue listed for a project: the odd ones are its own, the even
\* ones belong to a subproject and name it
IssueRecord(project_id, j) ==
  IF j % 2 = 1
  THEN [id |-> 10 * project_id + j, subject |-> <<"S">> \o Decimal(j),
        project |-> [id |-> project_id, name |-> <<"P">> \o Decimal(project_id)]]
  ELSE [id |-> 10 * project_id + j,
        project |-> [id |-> project_id + 1, name |-> <<"S", "u", "b">>]]

Text(n) == [i \in 1..n |-> DigitChar(i % 10)]

\* the note of the i-th journal of an issue: -1 for a journal without the key,
\* else the note's length
NoteChoice(i, long) ==
  IF i % 2 = 1
  THEN (IF long THEN PreviewLen + 1 ELSE -1)
  ELSE (IF long THEN PreviewLen ELSE 0)

JournalRecord(issue_id, i, note) ==
  IF note < 0
  THEN [id |-> 10 * issue_id + i]
  ELSE [id |-> 10 * issue_id + i, notes |-> Text(note)]

AttachmentRecord(issue_id, i) ==
  [id |-> 10 * issue_id + i, filename |-> <<"f">> \o Decimal(i)]

WikiTitles == << <<"H">>, <<"G">>, <<"F">> >>

WikiTitle(i) == WikiTitles[((i - 1) % Len(WikiTitles)) + 1]

\* the lengths of the page a listing endpoint returns when `left` records remain
PageSizes(left) == IF left = 0 THEN {0} ELSE 1..Min(MaxPageLen, left)

\* all sequences over S of length at most n
SeqsUpTo(S, n) == UNION {[1..m -> S] : m \in 0..n}

Retryable == {"429", "timeout"}
Fatal == {"401", "404", "500", "network", "json"}
HTTPStatus == {"401", "404", "429", "500"}

\* a retry condition that tries again after every failure
retry_if_any_failure(e) == e = e

\* retry_if_rate_limit_or_timeout: the failures tenacity tries again
retry_if_rate_limit_or_timeout(e) == e \in Retryable

NoEntity == [kind |-> "none"]
NoTarget == [k |-> "none", n |-> 0, t |-> <<>>]

Req(kind, target, offset, status) ==
  [ev |-> "req", kind |-> kind, target |-> target, offset |-> offset, status |-> status]

Emit(entity) == [ev |-> "emit", entity |-> entity]

\* the request of a kind failed: the exception e left _get_with_auth.  The
\* trace keeps of e what a handler goes on to read: the handler of the wiki
\* index reads the status to tell not-found from the rest, validate() reads it
\* to tell unauthorized from the rest, and no other handler reads it
Failed(kind, e) ==
  [ev |-> "fail", kind |-> kind,
   not_found |-> (kind = "wiki_index" /\ e = "404"),
   unauthorized |-> (kind = "current_user" /\ e = "401")]

\* what _get_with_auth returned for a request of a kind, as far as the caller
\* reads it: the document of the current user, the journals of an issue
Got(kind, data) == [ev |-> "got", kind |-> kind, data |-> data]

\* a record the handler of a caught failure writes to the log
Log(level, about) == [ev |-> "log", level |-> level, about |-> about]

(***************************************************************************)
(* State.                                                                  *)
(***************************************************************************)
VARIABLES
  config,    \* the config argument of create(), then self.config
  api_key,   \* the api_key argument of create(), then self.api_key
  base_url,  \* self.base_url
  caller,    \* the consumer: new, rejected, idle, awaiting, holding, finished, failed, closed, returned
  pc,        \* where the connector's code stands
  client,    \* the httpx.AsyncClient of the call: none, open, closed
  inflight,  \* the attempts sent of the request under way, 0 when there is none
  outcome,   \* the failure of the latest attempt while tenacity sleeps before the
             \* next, and the exception on its way out of the async with; else ""
  trace,     \* the requests issued, the requests that failed, the records their
             \* handlers logged, the entities yielded, the journals an issue
             \* request returned and the document validate() got, in order, since the
             \* current project was yielded (since the call, before the first)
  emitted,   \* the project_id of every project yielded so far
  asked,     \* the kinds of request issued so far
  logs,      \* the error and warning summaries of the project listing
  error,     \* the exception raised to the consumer, "" when none
  result,    \* what validate() returned
  ploop,     \* locals of _generate_project_entities
  iloop,     \* locals of _generate_issue_entities
  project,   \* project_entity of generate_entities
  issue,     \* issue_entity of generate_entities
  items,     \* the journals, attachments or wiki index entries still to walk
  srv        \* the server: what it holds and has served

vars == <<config, api_key, base_url, caller, pc, client, inflight, outcome, trace, emitted, asked, logs, error, result,
          ploop, iloop, project, issue, items, srv>>

NoLoop == [offset |-> 0, page |-> <<>>, len |-> 0, total_count |-> 0]

NoProjectLoop ==
  [offset |-> 0, page |-> <<>>, len |-> 0, total_count |-> 0,
   set |-> {}, total_projects |-> 0, filtered_projects |-> 0, found_identifiers |-> {}]

Init ==
  /\ \E args \in CreateArgs :
       /\ config = args.config
       /\ api_key = args.api_key
  /\ base_url = NoUrl
  /\ caller = "new"
  /\ pc = "new"
  /\ client = "none"
  /\ inflight = 0
  /\ outcome = ""
  /\ trace = <<>>
  /\ emitted = {}
  /\ asked = {}
  /\ logs = {}
  /\ error = ""
  /\ result = PyNone
  /\ ploop = NoProjectLoop
  /\ iloop = NoLoop
  /\ project = NoEntity
  /\ issue = NoEntity
  /\ items = <<>>
  /\ \E n \in 0..Budget :
       srv = [budget |-> Budget - n, pN |-> n, pServed |-> 0, iN |-> 0, iServed |-> 0]

(***************************************************************************)
(* create.                                                                 *)
(***************************************************************************)
\* config or {}
ConfigOrEmpty(cfg) ==
  IF "py" \in DOMAIN cfg /\ cfg.py = "None"
  THEN MkConfig(Absent, Absent, Absent, Absent)
  ELSE cfg

\* create(api_key, config): ValueError without a base_url, else an instance
\* whose base_url has lost its trailing slashes
Create ==
  /\ pc = "new"
  /\ config' = ConfigOrEmpty(config)
  /\ IF HasText(config', "base_url")
     THEN /\ base_url' = RStrip(config'.base_url)
          /\ pc' = "idle"
          /\ caller' = "idle"
     ELSE /\ base_url' = base_url
          /\ pc' = "rejected"
          /\ caller' = "rejected"
  /\ UNCHANGED <<api_key, client, inflight, outcome, trace, emitted, asked, logs, error, result,
                 ploop, iloop, project, issue, items, srv>>

(***************************************************************************)
(* generate_entities: what it does next when a stage is over.  A project   *)
(* is followed by its issues, an issue by its journals and then its        *)
(* attachments, the issues by the wiki pages, and these by the next        *)
(* project.                                                                *)
(***************************************************************************)
\* generate_entities with the two enrichment steps of an issue exchanged
Continue_AttachmentsFirst(stage) ==
  CASE stage = "project" -> "issue_req"
    [] stage = "issue" -> "att_start"
    [] stage = "attachments" -> "jour_req"
    [] stage = "journals" -> "issue_iter"
    [] stage = "issues" -> "wiki_start"
    [] stage = "wiki" -> "proj_iter"

\* generate_entities going from an issue straight to its attachments
Continue_WithoutJournals(stage) ==
  CASE stage = "project" -> "issue_req"
    [] stage = "issue" -> "att_start"
    [] stage = "journals" -> "att_start"
    [] stage = "attachments" -> "issue_iter"
    [] stage = "issues" -> "wiki_start"
    [] stage = "wiki" -> "proj_iter"

\* generate_entities taking the next issue of the page before the issue
\* just yielded has been enriched
Continue_WithoutEnrichment(stage) ==
  CASE stage = "project" -> "issue_req"
    [] stage = "issue" -> "issue_iter"
    [] stage = "journals" -> "att_start"
    [] stage = "attachments" -> "issue_iter"
    [] stage = "issues" -> "wiki_start"
    [] stage = "wiki" -> "proj_iter"

Continue(stage) ==
  CASE stage = "project" -> "issue_req"
    [] stage = "issue" -> "jour_req"
    [] stage = "journals" -> "att_start"
    [] stage = "attachments" -> "issue_iter"
    [] stage = "issues" -> "wiki_start"
    [] stage = "wiki" -> "proj_iter"

(***************************************************************************)
(* The consumer.                                                           *)
(***************************************************************************)
\* project_identifiers_set of _generate_project_entities; the empty set stands
\* for None, which every use treats alike (`if project_identifiers_set`)
ProjectIdentifiersSet(cfg) ==
  LET project_identifiers_filter == Get(cfg, "project_identifiers", PyList(<<>>)) IN
  IF Truthy(project_identifiers_filter)
  THEN {Lower(identifier) : identifier \in Range(project_identifiers_filter.items)}
  ELSE {}

\* the first __anext__ of generate_entities(): the client is opened and
\* _generate_project_entities runs up to its first request
StartGenerate ==
  /\ caller = "idle"
  /\ caller' = "awaiting"
  /\ client' = "open"
  /\ ploop' = [NoProjectLoop EXCEPT !.set = ProjectIdentifiersSet(config)]
  /\ pc' = "proj_req"
  /\ UNCHANGED <<config, api_key, base_url, inflight, outcome, trace, emitted, asked, logs, error, result, iloop, project, issue, items, srv>>

\* a later __anext__: the generator resumes after its yield
Pull ==
  /\ caller = "holding"
  /\ caller' = "awaiting"
  /\ UNCHANGED <<config, api_key, base_url, pc, client, inflight, outcome, trace, emitted, asked, logs, error, result,
                 ploop, iloop, project, issue, items, srv>>

\* where the code stands while __aexit__ of the async with is under way, for
\* each way the call ends
Exiting == {"exit_done", "exit_raised", "exit_closed", "exit_val"}

ExitOf(end) ==
  CASE end = "done" -> "exit_done"
    [] end = "raised" -> "exit_raised"
    [] end = "closed" -> "exit_closed"
    [] end = "val_done" -> "exit_val"

EndOf(exit) ==
  CASE exit = "exit_done" -> "done"
    [] exit = "exit_raised" -> "raised"
    [] exit = "exit_closed" -> "closed"
    [] exit = "exit_val" -> "val_done"

\* what the consumer has when the call has ended
EndCaller(end) ==
  CASE end = "done" -> "finished"
    [] end = "raised" -> "failed"
    [] end = "closed" -> "closed"
    [] end = "val_done" -> "returned"

\* the code leaves `async with httpx.AsyncClient(...)` on its way to an end
\* of the call, with the exception e when it raises and the value r when
\* validate() returns.  __aexit__ marks the client closed and closes the
\* connections kept in the pool: when one is kept, closing it gives the event
\* loop a turn, the client being closed and the call not yet over; when none
\* is kept the call ends in the same step
AsyncExit(end, e, r) ==
  /\ client' = "closed"
  /\ \E kept \in BOOLEAN :
       IF kept
       THEN /\ pc' = ExitOf(end)
            /\ caller' = "awaiting"
            /\ outcome' = e
            /\ error' = error
            /\ result' = result
       ELSE /\ pc' = end
            /\ caller' = EndCaller(end)
            /\ outcome' = ""
            /\ error' = (IF end = "raised" THEN e ELSE error)
            /\ result' = (IF end = "val_done" THEN r ELSE result)

\* a close that ends the generator and leaves its client as it is
Close_LeavesClientOpen ==
  /\ caller = "holding"
  /\ caller' = "closed"
  /\ pc' = "closed"
  /\ UNCHANGED <<config, api_key, base_url, client, inflight, outcome, trace, emitted, asked, logs, error, result,
                 ploop, iloop, project, issue, items, srv>>

\* aclose() while the generator is suspended at a yield: GeneratorExit unwinds
\* the async with, which closes the client
Close ==
  /\ caller = "holding"
  /\ AsyncExit("closed", "", result)
  /\ UNCHANGED <<config, api_key, base_url, inflight, trace, emitted, asked, logs,
                 ploop, iloop, project, issue, items, srv>>

\* the run is over (exhausted, raised, or closed by the consumer) and
\* generate_entities() is called on the instance again: the frames of the
\* old run are gone with all their locals, the instance is what it was, and
\* the server will give the same responses; what was observed of the old run
\* is put away
Again ==
  /\ pc \in {"done", "raised", "closed"}
  /\ caller' = "idle"
  /\ pc' = "idle"
  /\ ploop' = NoProjectLoop
  /\ iloop' = NoLoop
  /\ project' = NoEntity
  /\ issue' = NoEntity
  /\ items' = <<>>
  /\ trace' = <<>>
  /\ emitted' = {}
  /\ asked' = {}
  /\ logs' = {}
  /\ error' = ""
  /\ srv' = [budget |-> Budget - srv.pN, pN |-> srv.pN, pServed |-> 0, iN |-> 0, iServed |-> 0]
  /\ UNCHANGED <<config, api_key, base_url, client, inflight, outcome, result>>

(***************************************************************************)
(* _get_with_auth: one request, attempted at most MaxAttempts times.       *)
(***************************************************************************)
Waiting == {"proj_wait", "issue_wait", "jour_wait", "att_wait", "wiki_wait", "page_wait", "val_wait"}

\* an attempt of the request is awaiting its answer: tenacity is not asleep
\* between two attempts
Pending == inflight >= 1 /\ outcome = ""

\* the attempt fails with a failure that the predicate retries, and it was not
\* the last: _get_with_auth logs and re-raises it (117-127), tenacity catches
\* it and goes to sleep, and until it wakes no request is in flight
GetRetry ==
  /\ pc \in Waiting
  /\ Pending
  /\ inflight < MaxAttempts
  /\ \E e \in Fatal \cup Retryable :
       /\ retry_if_rate_limit_or_timeout(e)
       /\ outcome' = e
  /\ UNCHANGED <<config, api_key, base_url, caller, pc, client, inflight, trace, emitted, asked, logs, error, result,
                 ploop, iloop, project, issue, items, srv>>

\* a wake-up that sends the same attempt again
GetResend_WithoutCounting ==
  /\ pc \in Waiting
  /\ inflight >= 1
  /\ outcome # ""
  /\ inflight' = inflight
  /\ outcome' = ""
  /\ UNCHANGED <<config, api_key, base_url, caller, pc, client, trace, emitted, asked, logs, error, result,
                 ploop, iloop, project, issue, items, srv>>

\* tenacity wakes up and calls _get_with_auth again: the next attempt is sent
GetResend ==
  /\ pc \in Waiting
  /\ inflight >= 1
  /\ outcome # ""
  /\ inflight' = inflight + 1
  /\ outcome' = ""
  /\ UNCHANGED <<config, api_key, base_url, caller, pc, client, trace, emitted, asked, logs, error, result,
                 ploop, iloop, project, issue, items, srv>>

\* the failure e leaves _get_with_auth: it is not retried, or it is the failure
\* of the last attempt (reraise=True)
GetRaises(e) ==
  /\ Pending
  /\ e \in Fatal \cup Retryable
  /\ retry_if_rate_limit_or_timeout(e) => inflight >= MaxAttempts

(***************************************************************************)
(* _generate_project_entities.                                             *)
(***************************************************************************)
SendProjects ==
  /\ caller = "awaiting"
  /\ pc = "proj_req"
  /\ trace' = Append(trace, Req("projects", NoTarget, ploop.offset, ""))
  /\ asked' = asked \cup {"projects"}
  /\ UNCHANGED emitted
  /\ inflight' = 1
  /\ outcome' = ""
  /\ pc' = "proj_wait"
  /\ UNCHANGED <<config, api_key, base_url, caller, client, logs, error, result, ploop, iloop, project, issue, items, srv>>

\* the server answers with the next k projects and the true total_count
ProjectsPage ==
  /\ pc = "proj_wait"
  /\ Pending
  /\ \E k \in PageSizes(srv.pN - srv.pServed) :
       /\ ploop' = [ploop EXCEPT !.page = [i \in 1..k |-> ProjectRecord(srv.pServed + i)],
                                 !.len = k,
                                 !.total_count = srv.pN]
       /\ srv' = [srv EXCEPT !.pServed = @ + k]
  /\ inflight' = 0
  /\ outcome' = ""
  /\ pc' = "proj_iter"
  /\ UNCHANGED <<config, api_key, base_url, caller, client, trace, emitted, asked, logs, error, result, iloop, project, issue, items>>

\* does the filter let the project through?
ProjectSelected(set, project_data) ==
  ~(set # {} /\ Lower(Get(project_data, "identifier", <<>>)) \notin set)

\* a project the filter drops
ProjectSkip ==
  /\ caller = "awaiting"
  /\ pc = "proj_iter"
  /\ ploop.page # <<>>
  /\ ~ProjectSelected(ploop.set, Head(ploop.page))
  /\ ploop' = [ploop EXCEPT !.page = Tail(@),
                            !.total_projects = @ + 1,
                            !.filtered_projects = @ + 1]
  /\ UNCHANGED <<config, api_key, base_url, caller, pc, client, inflight, outcome, trace, emitted, asked, logs, error, result,
                 iloop, project, issue, items, srv>>

\* a project is mapped and yielded; generate_entities yields it on and will
\* list its issues when it is resumed
ProjectYield ==
  /\ caller = "awaiting"
  /\ pc = "proj_iter"
  /\ ploop.page # <<>>
  /\ ProjectSelected(ploop.set, Head(ploop.page))
  /\ LET project_data == Head(ploop.page)
         identifier == Lower(Get(project_data, "identifier", <<>>))
         project_entity == _create_project_entity(project_data)
     IN /\ ploop' = [ploop EXCEPT !.page = Tail(@),
                                  !.total_projects = @ + 1,
                                  !.found_identifiers =
                                     IF ploop.set # {} THEN @ \cup {identifier} ELSE @]
        /\ project' = project_entity
        /\ trace' = <<Emit(project_entity)>>
        /\ emitted' = emitted \cup {project_entity.project_id}
  /\ caller' = "holding"
  /\ iloop' = NoLoop
  /\ pc' = Continue("project")
  /\ UNCHANGED <<config, api_key, base_url, client, inflight, outcome, asked, logs, error, result, issue, items, srv>>

\* the test as "stop when offset >= total_count or the page is empty"
LastPage_OffsetAlone(loop) == loop.offset >= loop.total_count \/ loop.len = 0

\* the test after a page: have all projects been fetched?
LastPage(loop) == loop.offset + loop.len >= loop.total_count \/ loop.len = 0

\* the summary with every listed project counted as matched
SummaryLogs_CountsListed(loop) ==
  LET matched_count == loop.total_projects
      missing_identifiers == loop.set \ loop.found_identifiers
  IN IF loop.set # {}
     THEN (IF missing_identifiers # {} THEN {"warning_not_found"} ELSE {})
          \cup (IF matched_count = 0 THEN {"error_no_match"} ELSE {})
     ELSE {}

\* what the summary of the project listing logs at warning or error level
SummaryLogs(loop) ==
  LET matched_count == loop.total_projects - loop.filtered_projects
      missing_identifiers == loop.set \ loop.found_identifiers
  IN IF loop.set # {}
     THEN (IF missing_identifiers # {} THEN {"warning_not_found"} ELSE {})
          \cup (IF matched_count = 0 THEN {"error_no_match"} ELSE {})
     ELSE {}

\* a listing that, at its end, removes the filter it has used from the
\* configuration of the instance
ProjectsBreak_ForgetsFilter ==
  /\ caller = "awaiting"
  /\ pc = "proj_iter"
  /\ ploop.page = <<>>
  /\ LastPage(ploop)
  /\ logs' = logs \cup SummaryLogs(ploop)
  /\ config' = [k \in DOMAIN config \ {"project_identifiers"} |-> config[k]]
  /\ pc' = "done"
  /\ caller' = "finished"
  /\ client' = "closed"
  /\ UNCHANGED <<api_key, base_url, inflight, outcome, trace, emitted, asked, error, result, ploop, iloop, project, issue, items, srv>>

\* the last page is done: the summary is logged, the listing ends, and with it
\* generate_entities, which leaves the async with
ProjectsBreak ==
  /\ caller = "awaiting"
  /\ pc = "proj_iter"
  /\ ploop.page = <<>>
  /\ LastPage(ploop)
  /\ logs' = logs \cup SummaryLogs(ploop)
  /\ AsyncExit("done", "", result)
  /\ UNCHANGED <<config, api_key, base_url, inflight, trace, emitted, asked, ploop, iloop, project, issue, items, srv>>

ProjectsNextPage ==
  /\ caller = "awaiting"
  /\ pc = "proj_iter"
  /\ ploop.page = <<>>
  /\ ~LastPage(ploop)
  /\ ploop' = [ploop EXCEPT !.offset = @ + limit]
  /\ pc' = "proj_req"
  /\ UNCHANGED <<config, api_key, base_url, caller, client, inflight, outcome, trace, emitted, asked, logs, error, result,
                 iloop, project, issue, items, srv>>

(***************************************************************************)
(* _generate_issue_entities.                                               *)
(***************************************************************************)
\* the status filter that ignores the configuration
StatusFilter_OpenOnly(cfg) == "open"

StatusFilter(cfg) ==
  IF Truthy(Get(cfg, "include_closed_issues", PyBool(FALSE))) THEN "*" ELSE "open"

SendIssues ==
  /\ caller = "awaiting"
  /\ pc = "issue_req"
  /\ trace' = Append(trace, Req("issues", EntityId("project", project.project_id, <<>>),
                                iloop.offset, StatusFilter(config)))
  /\ asked' = asked \cup {"issues"}
  /\ UNCHANGED emitted
  /\ inflight' = 1
  /\ outcome' = ""
  /\ pc' = "issue_wait"
  /\ UNCHANGED <<config, api_key, base_url, caller, client, logs, error, result, ploop, iloop, project, issue, items, srv>>

\* the server answers with the next k issues of the project and the true
\* total_count; at offset 0 it settles how many issues the project has
IssuesPage ==
  /\ pc = "issue_wait"
  /\ Pending
  /\ \E n \in (IF iloop.offset = 0 THEN 0..srv.budget ELSE {srv.iN}) :
       LET served == IF iloop.offset = 0 THEN 0 ELSE srv.iServed IN
       \E k \in PageSizes(n - served) :
         /\ iloop' = [iloop EXCEPT !.page = [i \in 1..k |-> IssueRecord(project.project_id, served + i)],
                                   !.len = k,
                                   !.total_count = n]
         /\ srv' = [srv EXCEPT !.iN = n,
                               !.iServed = served + k,
                               !.budget = IF iloop.offset = 0 THEN @ - n ELSE @]
  /\ inflight' = 0
  /\ outcome' = ""
  /\ pc' = "issue_iter"
  /\ UNCHANGED <<config, api_key, base_url, caller, client, trace, emitted, asked, logs, error, result, ploop, project, issue, items>>

\* an issue is mapped and yielded; generate_entities yields it on and will
\* fetch its journals when it is resumed
IssueYield ==
  /\ caller = "awaiting"
  /\ pc = "issue_iter"
  /\ iloop.page # <<>>
  /\ LET issue_entity == _create_issue_entity(Head(iloop.page), project)
     IN /\ issue' = issue_entity
        /\ trace' = Append(trace, Emit(issue_entity))
  /\ iloop' = [iloop EXCEPT !.page = Tail(@)]
  /\ caller' = "holding"
  /\ pc' = Continue("issue")
  /\ UNCHANGED <<config, api_key, base_url, client, inflight, outcome, emitted, asked, logs, error, result, ploop, project, items, srv>>

\* the issues are exhausted: generate_entities goes on to the wiki pages
IssuesBreak ==
  /\ caller = "awaiting"
  /\ pc = "issue_iter"
  /\ iloop.page = <<>>
  /\ LastPage(iloop)
  /\ pc' = Continue("issues")
  /\ UNCHANGED <<config, api_key, base_url, caller, client, inflight, outcome, trace, emitted, asked, logs, error, result,
                 ploop, iloop, project, issue, items, srv>>

IssuesNextPage ==
  /\ caller = "awaiting"
  /\ pc = "issue_iter"
  /\ iloop.page = <<>>
  /\ ~LastPage(iloop)
  /\ iloop' = [iloop EXCEPT !.offset = @ + limit]
  /\ pc' = "issue_req"
  /\ UNCHANGED <<config, api_key, base_url, caller, client, inflight, outcome, trace, emitted, asked, logs, error, result,
                 ploop, project, issue, items, srv>>

\* the failure of a listing request caught and logged like that of a wiki index
ListingFails_Caught ==
  /\ pc \in {"proj_wait", "issue_wait"}
  /\ \E e \in Fatal \cup Retryable :
       /\ GetRaises(e)
       /\ trace' = trace \o (IF pc = "proj_wait"
                              THEN <<Failed("projects", e), Log("warning", "projects")>>
                              ELSE <<Failed("issues", e), Log("warning", "issues")>>)
  /\ inflight' = 0
  /\ outcome' = ""
  /\ pc' = (IF pc = "proj_wait" THEN "done" ELSE Continue("issues"))
  /\ caller' = (IF pc = "proj_wait" THEN "finished" ELSE caller)
  /\ client' = (IF pc = "proj_wait" THEN "closed" ELSE client)
  /\ UNCHANGED <<config, api_key, base_url, emitted, asked, logs, error, result, ploop, iloop, project, issue, items, srv>>

\* a failure of a project or issue listing request is not caught anywhere: it
\* leaves generate_entities through the async with and reaches the consumer
ListingFails ==
  /\ pc \in {"proj_wait", "issue_wait"}
  /\ \E e \in Fatal \cup Retryable :
       /\ GetRaises(e)
       /\ trace' = Append(trace, Failed(IF pc = "proj_wait" THEN "projects" ELSE "issues", e))
       /\ AsyncExit("raised", e, result)
  /\ inflight' = 0
  /\ UNCHANGED <<config, api_key, base_url, emitted, asked, logs, ploop, iloop, project, issue, items, srv>>

(***************************************************************************)
(* _generate_journal_entities.                                             *)
(***************************************************************************)
\* a generator that runs on to the journals request without being asked for
\* the next entity
SendJournals_Eager ==
  /\ caller \in {"awaiting", "holding"}
  /\ pc = "jour_req"
  /\ trace' = Append(trace, Req("journals", EntityId("issue", issue.issue_id, <<>>), 0, ""))
  /\ asked' = asked \cup {"journals"}
  /\ UNCHANGED emitted
  /\ inflight' = 1
  /\ outcome' = ""
  /\ pc' = "jour_wait"
  /\ UNCHANGED <<config, api_key, base_url, caller, client, logs, error, result, ploop, iloop, project, issue, items, srv>>

SendJournals ==
  /\ caller = "awaiting"
  /\ pc = "jour_req"
  /\ trace' = Append(trace, Req("journals", EntityId("issue", issue.issue_id, <<>>), 0, ""))
  /\ asked' = asked \cup {"journals"}
  /\ UNCHANGED emitted
  /\ inflight' = 1
  /\ outcome' = ""
  /\ pc' = "jour_wait"
  /\ UNCHANGED <<config, api_key, base_url, caller, client, logs, error, result, ploop, iloop, project, issue, items, srv>>

\* the server answers with the issue and its journals
JournalsData ==
  /\ pc = "jour_wait"
  /\ Pending
  /\ \E notes \in SeqsUpTo(BOOLEAN, Min(MaxJournals, srv.budget)) :
       LET journals == [i \in 1..Len(notes) |->
                          JournalRecord(issue.issue_id, i, NoteChoice(i, notes[i]))]
       IN /\ items' = journals
          /\ trace' = Append(trace, Got("journals", journals))
          /\ srv' = [srv EXCEPT !.budget = @ - Len(notes)]
  /\ inflight' = 0
  /\ outcome' = ""
  /\ pc' = "jour_iter"
  /\ UNCHANGED <<config, api_key, base_url, caller, client, emitted, asked, logs, error, result, ploop, iloop, project, issue>>

\* a journal that only tracks field changes
JournalSkip ==
  /\ caller = "awaiting"
  /\ pc = "jour_iter"
  /\ items # <<>>
  /\ ~HasText(Head(items), "notes")
  /\ items' = Tail(items)
  /\ UNCHANGED <<config, api_key, base_url, caller, pc, client, inflight, outcome, trace, emitted, asked, logs, error, result,
                 ploop, iloop, project, issue, srv>>

\* a journal with notes is mapped and yielded
JournalYield ==
  /\ caller = "awaiting"
  /\ pc = "jour_iter"
  /\ items # <<>>
  /\ HasText(Head(items), "notes")
  /\ trace' = Append(trace, Emit(_create_journal_entity(Head(items), issue.issue_id, issue.entity_id)))
  /\ items' = Tail(items)
  /\ caller' = "holding"
  /\ UNCHANGED <<config, api_key, base_url, pc, client, inflight, outcome, emitted, asked, logs, error, result, ploop, iloop, project, issue, srv>>

\* the journals are exhausted: generate_entities goes on to the attachments
JournalsEnd ==
  /\ caller = "awaiting"
  /\ pc = "jour_iter"
  /\ items = <<>>
  /\ pc' = Continue("journals")
  /\ UNCHANGED <<config, api_key, base_url, caller, client, inflight, outcome, trace, emitted, asked, logs, error, result,
                 ploop, iloop, project, issue, items, srv>>

\* the failure of the journals request left uncaught
JournalsFail_Propagates ==
  /\ pc = "jour_wait"
  /\ \E e \in Fatal \cup Retryable :
       /\ GetRaises(e)
       /\ error' = e
       /\ trace' = Append(trace, Failed("journals", e))
  /\ inflight' = 0
  /\ outcome' = ""
  /\ pc' = "raised"
  /\ caller' = "failed"
  /\ client' = "closed"
  /\ UNCHANGED <<config, api_key, base_url, emitted, asked, logs, result, ploop, iloop, project, issue, items, srv>>

\* except Exception: a warning, and the issue has no journals
JournalsFail ==
  /\ pc = "jour_wait"
  /\ \E e \in Fatal \cup Retryable :
       /\ GetRaises(e)
       /\ trace' = trace \o <<Failed("journals", e), Log("warning", "journals")>>
  /\ inflight' = 0
  /\ outcome' = ""
  /\ pc' = Continue("journals")
  /\ UNCHANGED <<config, api_key, base_url, caller, client, emitted, asked, logs, error, result,
                 ploop, iloop, project, issue, items, srv>>

(***************************************************************************)
(* _generate_attachment_entities.                                          *)
(***************************************************************************)
\* attachments read as on unless switched off
IncludeAttachments_DefaultOn(cfg) == Truthy(Get(cfg, "include_attachments", PyBool(TRUE)))

IncludeAttachments(cfg) == Truthy(Get(cfg, "include_attachments", PyBool(FALSE)))

\* attachments are switched off: the generator returns at once
AttachmentsDisabled ==
  /\ caller = "awaiting"
  /\ pc = "att_start"
  /\ ~IncludeAttachments(config)
  /\ pc' = Continue("attachments")
  /\ UNCHANGED <<config, api_key, base_url, caller, client, inflight, outcome, trace, emitted, asked, logs, error, result,
                 ploop, iloop, project, issue, items, srv>>

\* the attachments are requested without awaiting the journals' response
SendAttachments_WhileJournalsPending ==
  /\ caller = "awaiting"
  /\ pc \in {"att_start", "jour_wait"}
  /\ IncludeAttachments(config)
  /\ trace' = Append(trace, Req("attachments", EntityId("issue", issue.issue_id, <<>>), 0, ""))
  /\ asked' = asked \cup {"attachments"}
  /\ UNCHANGED emitted
  /\ inflight' = 1
  /\ outcome' = ""
  /\ pc' = "att_wait"
  /\ UNCHANGED <<config, api_key, base_url, caller, client, logs, error, result, ploop, iloop, project, issue, items, srv>>

SendAttachments ==
  /\ caller = "awaiting"
  /\ pc = "att_start"
  /\ IncludeAttachments(config)
  /\ trace' = Append(trace, Req("attachments", EntityId("issue", issue.issue_id, <<>>), 0, ""))
  /\ asked' = asked \cup {"attachments"}
  /\ UNCHANGED emitted
  /\ inflight' = 1
  /\ outcome' = ""
  /\ pc' = "att_wait"
  /\ UNCHANGED <<config, api_key, base_url, caller, client, logs, error, result, ploop, iloop, project, issue, items, srv>>

\* the server answers with the issue and its attachments
AttachmentsData ==
  /\ pc = "att_wait"
  /\ Pending
  /\ \E m \in 0..Min(MaxAttachments, srv.budget) :
       /\ items' = [i \in 1..m |-> AttachmentRecord(issue.issue_id, i)]
       /\ srv' = [srv EXCEPT !.budget = @ - m]
  /\ inflight' = 0
  /\ outcome' = ""
  /\ pc' = "att_iter"
  /\ UNCHANGED <<config, api_key, base_url, caller, client, trace, emitted, asked, logs, error, result, ploop, iloop, project, issue>>

AttachmentYield ==
  /\ caller = "awaiting"
  /\ pc = "att_iter"
  /\ items # <<>>
  /\ trace' = Append(trace, Emit(_create_attachment_entity(Head(items), issue.issue_id, issue.entity_id)))
  /\ items' = Tail(items)
  /\ caller' = "holding"
  /\ UNCHANGED <<config, api_key, base_url, pc, client, inflight, outcome, emitted, asked, logs, error, result, ploop, iloop, project, issue, srv>>

\* the attachments are exhausted: back to the issues of the page
AttachmentsEnd ==
  /\ caller = "awaiting"
  /\ pc = "att_iter"
  /\ items = <<>>
  /\ pc' = Continue("attachments")
  /\ UNCHANGED <<config, api_key, base_url, caller, client, inflight, outcome, trace, emitted, asked, logs, error, result,
                 ploop, iloop, project, issue, items, srv>>

\* except Exception: a warning, and the issue has no attachments
AttachmentsFail ==
  /\ pc = "att_wait"
  /\ \E e \in Fatal \cup Retryable :
       /\ GetRaises(e)
       /\ trace' = trace \o <<Failed("attachments", e), Log("warning", "attachments")>>
  /\ inflight' = 0
  /\ outcome' = ""
  /\ pc' = Continue("attachments")
  /\ UNCHANGED <<config, api_key, base_url, caller, client, emitted, asked, logs, error, result,
                 ploop, iloop, project, issue, items, srv>>

(***************************************************************************)
(* _generate_wiki_page_entities.                                           *)
(***************************************************************************)
\* the wiki switch read as always on
IncludeWiki_Always(cfg) == TRUE

IncludeWiki(cfg) == Truthy(Get(cfg, "include_wiki_pages", PyBool(TRUE)))

\* wiki pages are switched off: the generator returns at once
WikiDisabled ==
  /\ caller = "awaiting"
  /\ pc = "wiki_start"
  /\ ~IncludeWiki(config)
  /\ pc' = Continue("wiki")
  /\ UNCHANGED <<config, api_key, base_url, caller, client, inflight, outcome, trace, emitted, asked, logs, error, result,
                 ploop, iloop, project, issue, items, srv>>

SendWikiIndex ==
  /\ caller = "awaiting"
  /\ pc = "wiki_start"
  /\ IncludeWiki(config)
  /\ trace' = Append(trace, Req("wiki_index", EntityId("project", project.project_id, <<>>), 0, ""))
  /\ asked' = asked \cup {"wiki_index"}
  /\ UNCHANGED emitted
  /\ inflight' = 1
  /\ outcome' = ""
  /\ pc' = "wiki_wait"
  /\ UNCHANGED <<config, api_key, base_url, caller, client, logs, error, result, ploop, iloop, project, issue, items, srv>>

\* the server answers with the index: entry i has the title WikiTitle(i) or none
WikiIndex ==
  /\ pc = "wiki_wait"
  /\ Pending
  /\ \E titled \in SeqsUpTo(BOOLEAN, Min(MaxWikiTitles, srv.budget)) :
       /\ items' = [i \in 1..Len(titled) |->
                      IF titled[i] THEN [title |-> WikiTitle(i)] ELSE [version |-> i]]
       /\ srv' = [srv EXCEPT !.budget = @ - Len(titled)]
  /\ inflight' = 0
  /\ outcome' = ""
  /\ pc' = "wiki_iter"
  /\ UNCHANGED <<config, api_key, base_url, caller, client, trace, emitted, asked, logs, error, result, ploop, iloop, project, issue>>

\* the index request failed, and a not-found is raised like any failure of a
\* listing, anything else logged as a warning
WikiIndexFails_NotFoundRaises ==
  /\ pc = "wiki_wait"
  /\ \E e \in Fatal \cup Retryable :
       /\ GetRaises(e)
       /\ trace' = (IF e = "404"
                    THEN Append(trace, Failed("wiki_index", e))
                    ELSE trace \o <<Failed("wiki_index", e), Log("warning", "wiki_index")>>)
       /\ error' = (IF e = "404" THEN e ELSE error)
       /\ pc' = (IF e = "404" THEN "raised" ELSE Continue("wiki"))
       /\ caller' = (IF e = "404" THEN "failed" ELSE caller)
       /\ client' = (IF e = "404" THEN "closed" ELSE client)
  /\ inflight' = 0
  /\ outcome' = ""
  /\ UNCHANGED <<config, api_key, base_url, emitted, asked, logs, result, ploop, iloop, project, issue, items, srv>>

\* the index request failed: 404 is logged as "no wiki enabled", anything else
\* as a warning, and the project has no wiki pages
WikiIndexFails ==
  /\ pc = "wiki_wait"
  /\ \E e \in Fatal \cup Retryable :
       /\ GetRaises(e)
       /\ trace' = trace \o <<Failed("wiki_index", e),
                               Log(IF e = "404" THEN "info" ELSE "warning", "wiki_index")>>
  /\ inflight' = 0
  /\ outcome' = ""
  /\ pc' = Continue("wiki")
  /\ UNCHANGED <<config, api_key, base_url, caller, client, emitted, asked, logs, error, result,
                 ploop, iloop, project, issue, items, srv>>

\* an index entry without a title
WikiEntrySkip ==
  /\ caller = "awaiting"
  /\ pc = "wiki_iter"
  /\ items # <<>>
  /\ ~HasText(Head(items), "title")
  /\ items' = Tail(items)
  /\ UNCHANGED <<config, api_key, base_url, caller, pc, client, inflight, outcome, trace, emitted, asked, logs, error, result,
                 ploop, iloop, project, issue, srv>>

SendWikiPage ==
  /\ caller = "awaiting"
  /\ pc = "wiki_iter"
  /\ items # <<>>
  /\ HasText(Head(items), "title")
  /\ trace' = Append(trace, Req("wiki_page", EntityId("wiki", project.project_id, Head(items).title), 0, ""))
  /\ asked' = asked \cup {"wiki_page"}
  /\ UNCHANGED emitted
  /\ inflight' = 1
  /\ outcome' = ""
  /\ pc' = "page_wait"
  /\ UNCHANGED <<config, api_key, base_url, caller, client, logs, error, result, ploop, iloop, project, issue, items, srv>>

\* the documents a wiki page request may answer with: the page under the title
\* asked for, the page under another title (a redirect), or no page object
WikiPageDocuments(page_title) ==
  {[wiki_page |-> [title |-> page_title]], [wiki_page |-> [title |-> <<"R">>]], [status |-> 1]}

\* the page arrives, is mapped and yielded
WikiPageYield ==
  /\ pc = "page_wait"
  /\ Pending
  /\ \E page_data \in WikiPageDocuments(Head(items).title) :
       LET wiki_page == Get(page_data, "wiki_page", <<>>) IN
       trace' = Append(trace, Emit(_create_wiki_page_entity(
                   wiki_page, project.project_id, project.name, project.entity_id)))
  /\ items' = Tail(items)
  /\ inflight' = 0
  /\ outcome' = ""
  /\ caller' = "holding"
  /\ pc' = "wiki_iter"
  /\ UNCHANGED <<config, api_key, base_url, client, emitted, asked, logs, error, result, ploop, iloop, project, issue, srv>>

\* except Exception inside the loop: a warning, and the next title
\* the detail response holds null where the page object should be:
\* page_data.get("wiki_page", {}) is None, the mapper's wiki_data.get raises
\* AttributeError and the handler of the page logs it like a failed fetch
UnmappableDocuments == {[wiki_page |-> PyNone]}

WikiPageUnmappable ==
  /\ pc = "page_wait"
  /\ Pending
  /\ \E page_data \in UnmappableDocuments :
       /\ Get(page_data, "wiki_page", <<>>) = PyNone
       /\ trace' = Append(trace, Log("warning", "wiki_page"))
  /\ items' = Tail(items)
  /\ inflight' = 0
  /\ outcome' = ""
  /\ pc' = "wiki_iter"
  /\ UNCHANGED <<config, api_key, base_url, caller, client, emitted, asked, logs, error, result,
                 ploop, iloop, project, issue, srv>>

\* a page handler that lets the failure leave the generator
WikiPageFails_Propagates ==
  /\ pc = "page_wait"
  /\ \E e \in Fatal \cup Retryable :
       /\ GetRaises(e)
       /\ trace' = Append(trace, Failed("wiki_page", e))
       /\ error' = e
  /\ inflight' = 0
  /\ outcome' = ""
  /\ pc' = "raised"
  /\ caller' = "failed"
  /\ client' = "closed"
  /\ UNCHANGED <<config, api_key, base_url, emitted, asked, logs, result,
                 ploop, iloop, project, issue, items, srv>>

WikiPageFails ==
  /\ pc = "page_wait"
  /\ \E e \in Fatal \cup Retryable :
       /\ GetRaises(e)
       /\ trace' = trace \o <<Failed("wiki_page", e), Log("warning", "wiki_page")>>
  /\ items' = Tail(items)
  /\ inflight' = 0
  /\ outcome' = ""
  /\ pc' = "wiki_iter"
  /\ UNCHANGED <<config, api_key, base_url, caller, client, emitted, asked, logs, error, result,
                 ploop, iloop, project, issue, srv>>

\* the index is exhausted: back to the projects of the page
WikiEnd ==
  /\ caller = "awaiting"
  /\ pc = "wiki_iter"
  /\ items = <<>>
  /\ pc' = Continue("wiki")
  /\ UNCHANGED <<config, api_key, base_url, caller, client, inflight, outcome, trace, emitted, asked, logs, error, result,
                 ploop, iloop, project, issue, items, srv>>

(***************************************************************************)
(* validate.                                                               *)
(***************************************************************************)
\* validate() is called: a client is opened and the current user requested
StartValidate ==
  /\ caller = "idle"
  /\ caller' = "awaiting"
  /\ client' = "open"
  /\ trace' = Append(trace, Req("current_user", NoTarget, 0, ""))
  /\ asked' = asked \cup {"current_user"}
  /\ UNCHANGED emitted
  /\ inflight' = 1
  /\ outcome' = ""
  /\ pc' = "val_wait"
  /\ UNCHANGED <<config, api_key, base_url, logs, error, result, ploop, iloop, project, issue, items, srv>>

\* JSON values that are not objects: a string and a number (null is PyNone, an
\* array PyList); an object is a record of its members
PyStr(s) == [py |-> "str", val |-> s]
PyInt(n) == [py |-> "int", val |-> n]

\* the value is a dict, which has .get
IsObject(v) == "py" \notin DOMAIN v

\* bool(v) for a value of a JSON document
Bool(v) ==
  IF IsObject(v)
  THEN DOMAIN v # {}
  ELSE CASE v.py = "None" -> FALSE
         [] v.py = "bool" -> v.val
         [] v.py = "list" -> v.items # <<>>
         [] v.py = "str" -> v.val # <<>>
         [] v.py = "int" -> v.val # 0

\* the documents the current-user endpoint may answer 200 with: a user object
\* with or without a login, an empty one, null, a string, an empty string, an
\* array, a number, no user member, and a document that is an array
UserDocuments ==
  {[user |-> [id |-> 1, login |-> <<"u">>]], [user |-> [id |-> 1]],
   [user |-> <<>>], [user |-> PyNone],
   [user |-> PyStr(<<"b", "o", "b">>)], [user |-> PyStr(<<>>)],
   [user |-> PyList(<<1>>)], [user |-> PyInt(5)],
   [status |-> 1], PyList(<<>>)}

\* any document read as naming a user
HasUser_Always(data) == TRUE

\* what the try block of validate() comes to on the document: data.get and
\* user.get raise AttributeError on a value that is no dict, which the
\* handler of Exception turns into False; a falsy user is the else branch
HasUser(data) ==
  IF ~IsObject(data)
  THEN FALSE
  ELSE LET user == Get(data, "user", PyNone)
       IN IF Bool(user) THEN IsObject(user) ELSE FALSE

\* HTTP 200: True when the document holds a user that is truthy and a dict,
\* False otherwise
ValidateData ==
  /\ pc = "val_wait"
  /\ Pending
  /\ \E data \in UserDocuments :
       /\ trace' = Append(trace, Got("current_user", data))
       /\ AsyncExit("val_done", "", PyBool(HasUser(data)))
  /\ inflight' = 0
  /\ UNCHANGED <<config, api_key, base_url, emitted, asked, logs, ploop, iloop, project, issue, items, srv>>

\* except HTTPStatusError / except Exception: False
ValidateFails ==
  /\ pc = "val_wait"
  /\ \E e \in Fatal \cup Retryable :
       /\ GetRaises(e)
       /\ trace' = Append(trace, Failed("current_user", e))
       /\ AsyncExit("val_done", "", PyBool(FALSE))
  /\ inflight' = 0
  /\ UNCHANGED <<config, api_key, base_url, emitted, asked, logs, ploop, iloop, project, issue, items, srv>>

\* what validate() returns after the document or failure the trace ends with
ValidateResult ==
  LET last == trace[Len(trace)]
  IN IF last.ev = "got" THEN PyBool(HasUser(last.data)) ELSE PyBool(FALSE)

\* __aexit__ is over and the call ends: the generator is exhausted or closed,
\* the exception reaches the consumer, or validate() returns
Leave ==
  /\ pc \in Exiting
  /\ pc' = EndOf(pc)
  /\ caller' = EndCaller(EndOf(pc))
  /\ error' = (IF pc = "exit_raised" THEN outcome ELSE error)
  /\ result' = (IF pc = "exit_val" THEN ValidateResult ELSE result)
  /\ outcome' = ""
  /\ UNCHANGED <<config, api_key, base_url, client, inflight, trace, emitted, asked, logs,
                 ploop, iloop, project, issue, items, srv>>

(***************************************************************************)
(* The specification.                                                      *)
(***************************************************************************)
Next ==
  \/ Create
  \/ StartGenerate \/ Pull \/ Close \/ Leave \/ Again \/ GetRetry \/ GetResend
  \/ SendProjects \/ ProjectsPage \/ ProjectSkip \/ ProjectYield
  \/ ProjectsBreak \/ ProjectsNextPage
  \/ SendIssues \/ IssuesPage \/ IssueYield \/ IssuesBreak \/ IssuesNextPage
  \/ ListingFails
  \/ SendJournals \/ JournalsData \/ JournalSkip \/ JournalYield \/ JournalsEnd \/ JournalsFail
  \/ AttachmentsDisabled \/ SendAttachments \/ AttachmentsData \/ AttachmentYield
  \/ AttachmentsEnd \/ AttachmentsFail
  \/ WikiDisabled \/ SendWikiIndex \/ WikiIndex \/ WikiIndexFails \/ WikiEntrySkip
  \/ SendWikiPage \/ WikiPageYield \/ WikiPageUnmappable \/ WikiPageFails \/ WikiEnd
  \/ StartValidate \/ ValidateData \/ ValidateFails

Spec == Init /\ [][Next]_vars

(***************************************************************************)
(* A server that answers a listing request with any page, empty or not, at *)
(* every offset, and with any total_count, a different one each time if it *)
(* likes.  The consumer pulls until the run ends and never closes; the     *)
(* journals of every issue are empty, attachments and wiki are off.        *)
(***************************************************************************)
\* the total_count values such a server reports; 0 is also what a response
\* without total_count counts as
AnyTotals == {0, limit + 1, 2 * limit + 1}

\* the lengths of the pages such a server returns
AnyPageSizes == {0, 1}

\* the records of the page at an offset
AnyPage(offset, k) == [i \in 1..k |-> (offset \div limit) * Cardinality(AnyPageSizes) + i]

InitAny ==
  /\ config = WithBaseUrl(QuietConfig, UsualUrl)
  /\ api_key = UsualKey
  /\ base_url = NoUrl
  /\ caller = "new"
  /\ pc = "new"
  /\ client = "none"
  /\ inflight = 0
  /\ outcome = ""
  /\ trace = <<>>
  /\ emitted = {}
  /\ asked = {}
  /\ logs = {}
  /\ error = ""
  /\ result = PyNone
  /\ ploop = NoProjectLoop
  /\ iloop = NoLoop
  /\ project = NoEntity
  /\ issue = NoEntity
  /\ items = <<>>
  /\ srv = [budget |-> 0, pN |-> 0, pServed |-> 0, iN |-> 0, iServed |-> 0]

\* any page of projects with any total_count
ProjectsPageAny ==
  /\ pc = "proj_wait"
  /\ Pending
  /\ \E k \in AnyPageSizes, total_count \in AnyTotals :
       ploop' = [ploop EXCEPT !.page = [i \in 1..k |-> ProjectRecord(AnyPage(ploop.offset, k)[i])],
                              !.len = k,
                              !.total_count = total_count]
  /\ inflight' = 0
  /\ outcome' = ""
  /\ pc' = "proj_iter"
  /\ UNCHANGED <<config, api_key, base_url, caller, client, trace, emitted, asked, logs, error, result, iloop, project, issue, items, srv>>

\* any page of issues with any total_count
IssuesPageAny ==
  /\ pc = "issue_wait"
  /\ Pending
  /\ \E k \in AnyPageSizes, total_count \in AnyTotals :
       iloop' = [iloop EXCEPT !.page = [i \in 1..k |->
                                          IssueRecord(project.project_id, AnyPage(iloop.offset, k)[i])],
                              !.len = k,
                              !.total_count = total_count]
  /\ inflight' = 0
  /\ outcome' = ""
  /\ pc' = "issue_iter"
  /\ UNCHANGED <<config, api_key, base_url, caller, client, trace, emitted, asked, logs, error, result, ploop, project, issue, items, srv>>

NextAny ==
  \/ Create
  \/ StartGenerate \/ Pull \/ Leave \/ GetRetry \/ GetResend
  \/ SendProjects \/ ProjectsPageAny \/ ProjectYield
  \/ ProjectsBreak \/ ProjectsNextPage
  \/ SendIssues \/ IssuesPageAny \/ IssueYield \/ IssuesBreak \/ IssuesNextPage
  \/ ListingFails
  \/ SendJournals \/ JournalsData \/ JournalsEnd \/ JournalsFail
  \/ AttachmentsDisabled \/ WikiDisabled

\* the event loop resumes a runnable coroutine, every request is answered or
\* times out, and the consumer pulls until the run ends
SpecAny == InitAny /\ [][NextAny]_vars /\ WF_vars(NextAny)

(***************************************************************************)
(* Properties.                                                             *)
(***************************************************************************)
\* the events of a kind in the trace
Events(ev) == SelectSeq(trace, LAMBDA e : e.ev = ev)

\* the entities of a kind yielded since the current project was yielded
Yielded(kind) == SelectSeq(Events("emit"), LAMBDA e : e.entity.kind = kind)

Last(s) == s[Len(s)]

\* the run stands unraised in the middle of its work, or has ended normally,
\* or is ending normally: its client is closed and the call about to end
StandsOrEnded ==
  \/ caller = "awaiting" /\ client = "open"
  \/ caller = "finished" /\ pc = "done"
  \/ caller = "awaiting" /\ pc = "exit_done" /\ client = "closed"

\* an exception has reached the consumer or is on its way out of the call
Raises == error # "" \/ pc \in {"raised", "exit_raised"} \/ caller = "failed"

\* the generator has run to its end, the call over or about to be
RunOver == pc \in {"done", "exit_done"}

\* C1: when the server cuts the N records of a listing into pages of any
\* lengths, short ones included, and reports total_count = N with each, the
\* listing loop yields exactly one entity per record: once the project listing
\* is over (no filter set) every one of the srv.pN projects has been yielded,
\* and once the issue listing of a project is over every one of its srv.iN
\* issues has been yielded.
C1_EveryRecordYieldedOnce ==
  /\ (pc = "done" /\ ploop.set = {}) => emitted = 1..srv.pN
  /\ pc = "wiki_start" =>
       /\ Len(Yielded("issue")) = srv.iN
       /\ \A i \in 1..srv.iN :
            Yielded("issue")[i].entity.issue_id = IssueRecord(project.project_id, i).id

\* the entities yielded since the current project was yielded, itself included
Stream ==
  LET emits == Events("emit")
  IN [i \in 1..Len(emits) |-> emits[i].entity]

\* the issue a journal or attachment at position i of the stream was yielded under
Owner(i) ==
  {j \in 1..(i - 1) :
     /\ Stream[j].kind = "issue"
     /\ \A k \in (j + 1)..(i - 1) : Stream[k].kind # "issue"}

\* the place of a title in the wiki index
TitleIndex(t) == {i \in 1..Len(WikiTitles) : WikiTitles[i] = t}

\* the configuration sets the switch to false
SwitchedOff(key) == key \in DOMAIN config /\ config[key] = PyBool(FALSE)

\* the part of the stream that a project opens is depth-first.  The project
\* is first and the only project in it; its issues come before its wiki
\* pages; each journal and attachment comes under the latest issue before it,
\* journals before attachments; issues, journals and attachments come in the
\* order of the server's records (ascending ids) and wiki pages are requested
\* in the order of the index; every issue and wiki page names the project
\* that opened the part; and that project is the latest of the projects
\* yielded in the run, in the order of the listing (ascending ids).
PartDepthFirst ==
  LET s == Stream IN
  /\ \A i \in 1..Len(s) : (s[i].kind = "project") <=> (i = 1)
  /\ Len(s) >= 1 =>
       /\ s[1].project_id \in emitted
       /\ \A q \in emitted : q <= s[1].project_id
  /\ \A i \in 2..Len(s) :
       LET e == s[i]
           prev == s[i - 1]
       IN /\ e.kind \in {"issue", "wiki"} =>
               e.breadcrumbs[1].entity_id = s[1].entity_id
          /\ e.kind = "issue" =>
               /\ prev.kind # "wiki"
               /\ \A j \in 1..(i - 1) :
                    s[j].kind = "issue" => s[j].issue_id < e.issue_id
          /\ e.kind = "journal" =>
               /\ prev.kind \in {"issue", "journal"}
               /\ prev.kind = "journal" => prev.journal_id < e.journal_id
          /\ e.kind = "attachment" =>
               /\ prev.kind \in {"issue", "journal", "attachment"}
               /\ prev.kind = "attachment" => prev.attachment_id < e.attachment_id
          /\ e.kind \in {"journal", "attachment"} =>
               /\ Owner(i) # {}
               /\ \A j \in Owner(i) :
                    /\ e.breadcrumbs[1].entity_id = s[j].entity_id
                    /\ e.issue_id = s[j].issue_id
  /\ LET pages == SelectSeq(Events("req"), LAMBDA r : r.kind = "wiki_page")
     IN \A i \in 1..Len(pages) : \A j \in (i + 1)..Len(pages) :
          \A a \in TitleIndex(pages[i].target.t) : \A b \in TitleIndex(pages[j].target.t) :
            a < b

\* the step yields a project, which opens a new part of the stream
OpensPart ==
  /\ trace' # trace
  /\ Len(trace') = 1
  /\ trace'[1].ev = "emit"

\* the part of the stream open so far is closed: no issue page is left to
\* walk or to ask for, no journal, attachment or wiki entry is left to
\* handle, no request is pending, and the wiki index has been asked for after
\* the issues unless the wiki is off
PartClosed ==
  Events("emit") # <<>> =>
    /\ pc = "proj_iter"
    /\ items = <<>>
    /\ inflight = 0
    /\ iloop.page = <<>>
    /\ \E r \in 1..Len(trace) : trace[r].ev = "req" /\ trace[r].kind = "issues"
    /\ ~SwitchedOff("include_wiki_pages") =>
         \E r \in 1..Len(trace) :
           /\ trace[r].ev = "req" /\ trace[r].kind = "wiki_index"
           /\ \A t \in (r + 1)..Len(trace) :
                trace[t].ev = "emit" => trace[t].entity.kind = "wiki"

\* C2: the stream is depth-first.  Every part of it that a project opens is
\* depth-first (project, then each issue followed by its journals and then
\* its attachments, then the wiki pages, each level in the order of the
\* server's responses), and the next project is yielded only when the part
\* of the project before it is closed: it is a project that was not yielded
\* before and that the listing placed after every project yielded so far.
C2_DepthFirst ==
  /\ []PartDepthFirst
  /\ [][OpensPart =>
          /\ PartClosed
          /\ trace'[1].entity.kind = "project"
          /\ trace'[1].entity.project_id \notin emitted
          /\ \A q \in emitted : q < trace'[1].entity.project_id
          /\ emitted' = emitted \cup {trace'[1].entity.project_id}]_vars

\* the second project of a listing has been walked to the end after the
\* first: an issue and its attachment were yielded under it, and its wiki
\* index requested after them
C2_Witness ==
  /\ pc = "done"
  /\ emitted = {1, 2}
  /\ Stream[1].project_id = 2
  /\ Len(Yielded("issue")) >= 1
  /\ Len(Yielded("attachment")) >= 1
  /\ \E i \in 1..Len(trace) :
       /\ trace[i].ev = "req"
       /\ trace[i].kind = "wiki_index"
       /\ \A j \in 1..(i - 1) : trace[j].ev = "emit" => trace[j].entity.kind # "wiki"
       /\ \E j \in 1..(i - 1) : trace[j].ev = "emit" /\ trace[j].entity.kind = "attachment"

\* C3: with include_wiki_pages false no wiki index and no wiki page request
\* has been issued, and with include_attachments false no attachments request
\* has been issued, at any point of any run; each switch acts alone, so one
\* being off does not depend on the other.
C3_SwitchedOffMeansNoRequest ==
  LET requests == Events("req") IN
  /\ SwitchedOff("include_wiki_pages") =>
       /\ asked \cap {"wiki_index", "wiki_page"} = {}
       /\ \A i \in 1..Len(requests) :
            requests[i].kind \notin {"wiki_index", "wiki_page"}
  /\ SwitchedOff("include_attachments") =>
       /\ "attachments" \notin asked
       /\ \A i \in 1..Len(requests) : requests[i].kind # "attachments"

\* a run with wiki pages off and attachments on ends, having yielded a project,
\* an issue and an attachment
C3_Witness ==
  /\ SwitchedOff("include_wiki_pages")
  /\ ~SwitchedOff("include_attachments")
  /\ pc = "done"
  /\ "attachments" \in asked
  /\ Len(Yielded("issue")) >= 1
  /\ Len(Yielded("attachment")) >= 1

\* the configuration sets the switch to true
SwitchedOn(key) == key \in DOMAIN config /\ config[key] = PyBool(TRUE)

\* position i of the trace is the failure of a request of these kinds
FailedAt(i, kinds) == trace[i].ev = "fail" /\ trace[i].kind \in kinds

\* the record logged at position i of the trace, at the level, about the kind
LoggedAt(i, level, kind) ==
  /\ i <= Len(trace)
  /\ trace[i] = Log(level, kind)

\* C4: a failed journals or attachments request never raises.  Wherever the
\* trace holds such a failure, its warning follows at once,
\* the issue the request was for is still in the stream, a journals failure
\* is followed by the attachments request for the same issue when attachments
\* are on, and as long as nothing else was done the run stands unraised with
\* its client open or has ended normally.  The only requests whose failure
\* raises are the two listings.
C4_EnrichmentFailureIsCaught ==
  /\ \A i \in 1..Len(trace) :
       FailedAt(i, {"journals", "attachments"}) =>
         /\ i > 1
         /\ trace[i - 1].ev = "req"
         /\ trace[i - 1].kind = trace[i].kind
         /\ \E j \in 1..(i - 1) :
              /\ trace[j].ev = "emit"
              /\ trace[j].entity.entity_id = trace[i - 1].target
         /\ LoggedAt(i + 1, "warning", trace[i].kind)
         /\ i + 1 = Len(trace) =>
              /\ ~Raises
              /\ StandsOrEnded
         /\ (trace[i].kind = "journals" /\ SwitchedOn("include_attachments")) =>
              IF i + 1 = Len(trace)
              THEN pc = "att_start"
              ELSE trace[i + 2] = Req("attachments", trace[i - 1].target, 0, "")
  /\ Raises =>
       /\ trace # <<>>
       /\ Last(trace).ev = "fail"
       /\ Last(trace).kind \in {"projects", "issues"}

\* the journals request of an issue failed, its attachments were requested all
\* the same, a later issue and a wiki page were yielded, and the run ended
C4_Witness ==
  /\ pc = "done"
  /\ Len(Yielded("wiki")) >= 1
  /\ \E i \in 2..(Len(trace) - 2) :
       /\ FailedAt(i, {"journals"})
       /\ trace[i + 2].ev = "req"
       /\ trace[i + 2].kind = "attachments"
       /\ \E j \in (i + 2)..Len(trace) :
            trace[j].ev = "emit" /\ trace[j].entity.kind = "issue"

\* the run has raised to the consumer and nothing was done after position i,
\* or the exception is leaving the async with, whose client is closed, and
\* nothing but its arrival at the consumer can follow
RaisedAt(i) ==
  /\ i = Len(trace)
  /\ client = "closed"
  /\ inflight = 0
  /\ \/ pc = "raised" /\ error \in Fatal \cup Retryable /\ caller = "failed"
     \/ /\ pc = "exit_raised" /\ outcome \in Fatal \cup Retryable
        /\ error = "" /\ caller = "awaiting"
        /\ ENABLED Leave

\* C5 as stated: the failure of a project listing, issue listing or wiki
\* index request, other than a wiki not-found, is fatal: wherever the trace
\* holds one, it is the last event and the run has raised.
C5_EveryListingFailureIsFatal ==
  \A i \in 1..Len(trace) :
    (FailedAt(i, {"projects", "issues", "wiki_index"})
       /\ ~LoggedAt(i + 1, "info", "wiki_index"))
    => RaisedAt(i)

\* C5, amended: the failure of a project listing or issue listing request is
\* fatal: it is the last event of the trace, right after its request, and the
\* run has raised it with the client closed; a raised run always ends so.  The
\* failure of a wiki index request, of whatever kind, is never fatal: it is
\* logged, at info level or as a warning, and right after it the run stands
\* unraised or has ended normally.
C5_ListingFailureIsFatalWikiIndexIsNot ==
  /\ \A i \in 1..Len(trace) :
       FailedAt(i, {"projects", "issues"}) =>
         /\ RaisedAt(i)
         /\ i > 1
         /\ trace[i - 1].ev = "req"
         /\ trace[i - 1].kind = trace[i].kind
  /\ Raises =>
       /\ trace # <<>>
       /\ FailedAt(Len(trace), {"projects", "issues"})
  /\ \A i \in 1..Len(trace) :
       FailedAt(i, {"wiki_index"}) =>
         /\ LoggedAt(i + 1, "info", "wiki_index") \/ LoggedAt(i + 1, "warning", "wiki_index")
         /\ i + 1 = Len(trace) =>
              /\ ~Raises
              /\ StandsOrEnded

\* the issue listing of a yielded project failed on its last attempt with a
\* retryable error, and the run raised it
C5_Witness ==
  /\ pc = "raised"
  /\ error \in Retryable
  /\ Len(Yielded("project")) = 1
  /\ FailedAt(Len(trace), {"issues"})

\* C6: a wiki index request answered not-found is not an error.  Wherever
\* the trace holds one, it is logged at info level, the project has no wiki
\* page entity and no wiki page request, what follows is the next request of
\* the project listing, and as long as nothing else was done no error has
\* reached the consumer: the run is about to take the next project or the
\* next page of projects, or has ended normally.
C6_WikiNotFoundIsEmpty ==
  \A i \in 1..Len(trace) :
    (FailedAt(i, {"wiki_index"}) /\ trace[i].not_found) =>
      /\ i > 1
      /\ trace[i - 1] = Req("wiki_index", Stream[1].entity_id, 0, "")
      /\ LoggedAt(i + 1, "info", "wiki_index")
      /\ Len(Yielded("wiki")) = 0
      /\ \A j \in 1..Len(trace) : ~(trace[j].ev = "req" /\ trace[j].kind = "wiki_page")
      /\ i + 1 < Len(trace) =>
           /\ trace[i + 2].ev = "req"
           /\ trace[i + 2].kind = "projects"
      /\ i + 1 = Len(trace) =>
           /\ ~Raises
           /\ StandsOrEnded
           /\ pc \in {"proj_iter", "proj_req", "exit_done", "done"}

\* the wiki index of a project answered not-found and the run stands before
\* the next project of the page
C6_Witness ==
  /\ pc = "proj_iter"
  /\ ploop.page # <<>>
  /\ Len(trace) >= 2
  /\ FailedAt(Len(trace) - 1, {"wiki_index"})
  /\ trace[Len(trace) - 1].not_found
  /\ Len(Yielded("issue")) >= 1

\* validate() has returned
Validated == pc = "val_done" /\ trace # <<>>

\* C7 as stated: validate() returns True whenever the current-user request
\* is answered 200, whatever the document, and False whenever it fails.
C7_TrueOnEvery200 ==
  Validated =>
    /\ Last(trace).ev = "got" => result = PyBool(TRUE)
    /\ Last(trace).ev = "fail" => result = PyBool(FALSE)

\* the value is a JSON object with at least one member
NonEmptyObject(v) == "py" \notin DOMAIN v /\ Cardinality(DOMAIN v) > 0

\* C7, amended: validate() returns True exactly when the current-user request
\* is answered 200 with a document that is an object whose user member is an
\* object with content; it returns False when the document is no object, holds
\* no user, or holds a user that is null, empty, or a string, number or
\* array, when the request is answered 401 or any other HTTP error, and when
\* it raises anything else; it always returns True or False, raises nothing
\* and leaves its client closed.
C7_TrueOnlyOn200WithUser ==
  /\ Validated =>
       /\ result \in {PyBool(TRUE), PyBool(FALSE)}
       /\ error = ""
       /\ caller = "returned"
       /\ client = "closed"
       /\ Len(trace) = 2
       /\ trace[1] = Req("current_user", NoTarget, 0, "")
       /\ Last(trace).ev \in {"got", "fail"}
       /\ result = PyBool(TRUE) <=>
            /\ Last(trace).ev = "got"
            /\ "py" \notin DOMAIN Last(trace).data
            /\ "user" \in DOMAIN Last(trace).data
            /\ NonEmptyObject(Last(trace).data.user)
  /\ pc \in {"val_wait", "exit_val"} => result = PyNone
  /\ pc = "exit_val" => client = "closed" /\ error = ""

\* validate() was answered 200 with a document whose user is a non-empty
\* string and returned False
C7_Witness ==
  /\ Validated
  /\ Last(trace).ev = "got"
  /\ Last(trace).data = [user |-> PyStr(<<"b", "o", "b">>)]
  /\ result = PyBool(FALSE)

\* the identifiers the configuration asks for: none when project_identifiers
\* is absent, None or empty
Configured ==
  IF "project_identifiers" \in DOMAIN config /\ config.project_identifiers.py = "list"
  THEN Range(config.project_identifiers.items)
  ELSE {}

SameLetter(x, y) ==
  \/ x = y
  \/ {x, y} \in {{"a", "A"}, {"b", "B"}, {"c", "C"}, {"d", "D"}, {"z", "Z"}}

SameIgnoringCase(s, t) ==
  /\ Len(s) = Len(t)
  /\ \A i \in 1..Len(s) : SameLetter(s[i], t[i])

\* the k-th project of the listing has one of the identifiers asked for
Matches(k) ==
  \E identifier \in Configured : SameIgnoringCase(identifier, ProjectRecord(k).identifier)

\* C8: when identifiers are configured and none of the projects the listing
\* returned has one of them, the finished run has yielded nothing and has
\* logged the error that no project matched the filter (and the warning that
\* requested projects were not found); a run that matched a project does not
\* log that error, and a run without a filter logs neither, whatever the
\* listing returned.
C8_NoMatchIsReported ==
  /\ (RunOver /\ Configured # {} /\ \A k \in 1..srv.pServed : ~Matches(k)) =>
       /\ emitted = {}
       /\ Len(Events("emit")) = 0
       /\ {"error_no_match", "warning_not_found"} \subseteq logs
  /\ (RunOver /\ Configured # {} /\ \E k \in 1..srv.pServed : Matches(k)) =>
       "error_no_match" \notin logs
  /\ Configured = {} => logs = {}
  /\ ~RunOver => logs = {}

\* a filtered run over two listed projects, neither of them asked for, has ended
C8_Witness ==
  /\ pc = "done"
  /\ Configured # {}
  /\ srv.pServed >= 2
  /\ \A k \in 1..srv.pServed : ~Matches(k)
  /\ "error_no_match" \in logs

\* the project an issue belongs to
ProjectOfIssue(issue_id) == issue_id \div 10

\* C9: with identifiers configured, the projects yielded are, of the projects
\* walked so far, exactly those whose identifier equals a configured one
\* ignoring case, and every issue, journal, attachment and wiki request is for
\* such a project; without identifiers configured (absent, None or empty)
\* every project walked is yielded.
C9_FilterSelectsByIdentifier ==
  /\ Configured # {} =>
       /\ emitted = {k \in 1..ploop.total_projects : Matches(k)}
       /\ \A i \in 1..Len(Events("req")) :
            LET r == Events("req")[i] IN
            /\ r.kind \in {"issues", "wiki_index", "wiki_page"} =>
                 r.target.n \in emitted /\ Matches(r.target.n)
            /\ r.kind \in {"journals", "attachments"} =>
                 ProjectOfIssue(r.target.n) \in emitted /\ Matches(ProjectOfIssue(r.target.n))
  /\ Configured = {} => emitted = 1..ploop.total_projects

\* of three listed projects the filter let the second through, in spite of
\* the different case, its issues were listed and one was yielded, and the
\* run ended
C9_Witness ==
  /\ pc = "done"
  /\ Configured # {}
  /\ ploop.total_projects = 3
  /\ emitted = {2}
  /\ ProjectRecord(2).identifier \notin Configured
  /\ Len(Yielded("issue")) >= 1

\* the name a journal with the notes is to carry
PreviewOf(name, notes) ==
  IF Len(notes) > 50
  THEN /\ Len(name) = 53
       /\ \A i \in 1..50 : name[i] = notes[i]
       /\ \A i \in 51..53 : name[i] = "."
  ELSE name = notes

\* the journal entities yielded right after position g of the trace
YieldedAfter(g) ==
  LET stop == {j \in (g + 1)..Len(trace) :
                 ~(trace[j].ev = "emit" /\ trace[j].entity.kind = "journal")}
      end == IF stop = {} THEN Len(trace)
             ELSE (CHOOSE j \in stop : \A k \in stop : j <= k) - 1
  IN [i \in 1..(end - g) |-> trace[g + i].entity]

\* the walk of the journals returned at position g of the trace is over
WalkedAfter(g) ==
  \/ Len(YieldedAfter(g)) < Len(trace) - g
  \/ items = <<>>
  \/ pc \notin {"jour_iter", "exit_closed", "closed"}

\* C10: for every journals response, the journal entities yielded after it
\* are those of its journals that have non-empty notes, in the order of the
\* response: never one without notes or with empty notes, each carrying its
\* journal's id and notes and, as name, the notes when they have at most 50
\* characters and their first 50 characters followed by "..." otherwise; and
\* once the walk of the response is over none of them is missing.
C10_JournalsWithNotes ==
  \A g \in 1..Len(trace) :
    (trace[g].ev = "got" /\ trace[g].kind = "journals") =>
      LET noted == SelectSeq(trace[g].data,
                             LAMBDA j : "notes" \in DOMAIN j /\ Len(j.notes) > 0)
          out == YieldedAfter(g)
      IN /\ Len(out) <= Len(noted)
         /\ \A i \in 1..Len(out) :
              /\ out[i].journal_id = noted[i].id
              /\ out[i].notes = noted[i].notes
              /\ PreviewOf(out[i].name, noted[i].notes)
         /\ WalkedAfter(g) => Len(out) = Len(noted)

\* a response with a journal without notes and a journal with notes of exactly
\* 50 characters has been walked: the second alone was yielded, under its notes
C10_Witness ==
  \E g \in 1..Len(trace) :
    /\ trace[g].ev = "got"
    /\ trace[g].kind = "journals"
    /\ Len(trace[g].data) = 2
    /\ "notes" \notin DOMAIN trace[g].data[1]
    /\ Len(trace[g].data[2].notes) = 50
    /\ Len(YieldedAfter(g)) = 1
    /\ YieldedAfter(g)[1].name = trace[g].data[2].notes
    /\ pc = "att_start"

\* the requests of a kind in the trace
Requests(kind) == SelectSeq(Events("req"), LAMBDA r : r.kind = kind)

\* C11: every issue listing request carries status_id=open when
\* include_closed_issues is false and status_id=* when it is true, on every
\* page and for every project, so that all the requests of a run carry the
\* same value.
C11_StatusFilterFollowsSwitch ==
  LET listings == Requests("issues")
      requests == Events("req")
  IN
  /\ \A i \in 1..Len(listings) :
       /\ SwitchedOff("include_closed_issues") => listings[i].status = "open"
       /\ SwitchedOn("include_closed_issues") => listings[i].status = "*"
       /\ listings[i].status = listings[1].status
  /\ \A i \in 1..Len(requests) :
       requests[i].kind # "issues" => requests[i].status = ""

\* with closed issues included, the second page of the issues of the second
\* project was requested with the wildcard
C11_Witness ==
  /\ SwitchedOn("include_closed_issues")
  /\ Cardinality(emitted) = 2
  /\ Len(Requests("issues")) = 2
  /\ Requests("issues")[2].offset = limit
  /\ Requests("issues")[2].status = "*"

\* the configuration sets none of the three switches
NoSwitchSet ==
  DOMAIN config \cap {"include_closed_issues", "include_attachments", "include_wiki_pages"} = {}

\* the walk of the current project is over: the project listing has resumed
ProjectWalked ==
  /\ Stream # <<>>
  /\ \/ pc \in {"proj_iter", "proj_req", "proj_wait", "done"}
     \/ pc = "raised" /\ FailedAt(Len(trace), {"projects"})

\* C12: with the three switches absent, every issue listing request asks for
\* open issues only, no attachments request is ever issued, and the wiki
\* index of a project is requested, after its issues, never more than once
\* and exactly once by the time the walk of the project is over.
C12_Defaults ==
  NoSwitchSet =>
    /\ \A i \in 1..Len(Requests("issues")) : Requests("issues")[i].status = "open"
    /\ "attachments" \notin asked
    /\ Len(Requests("attachments")) = 0
    /\ Len(Requests("wiki_index")) <= 1
    /\ \A i \in 1..Len(Requests("wiki_index")) :
         Requests("wiki_index")[i].target = Stream[1].entity_id
    /\ ProjectWalked => Len(Requests("wiki_index")) = 1

\* a run without any switch set has walked two projects to the end, the
\* second with an issue
C12_Witness ==
  /\ NoSwitchSet
  /\ pc = "done"
  /\ Cardinality(emitted) = 2
  /\ Len(Yielded("issue")) >= 1
  /\ Len(Requests("wiki_index")) = 1

\* b is url without its trailing slashes: a prefix of url that does not end
\* in a slash, followed in url by slashes only
IsStripped(url, b) ==
  /\ Len(b) <= Len(url)
  /\ SubSeq(url, 1, Len(b)) = b
  /\ \A i \in (Len(b) + 1)..Len(url) : url[i] = "/"
  /\ b # <<>> => b[Len(b)] # "/"

\* the config argument is None, or has no base_url, or an empty one
NoBaseUrl(cfg) ==
  \/ "py" \in DOMAIN cfg
  \/ "base_url" \notin DOMAIN cfg
  \/ cfg.base_url = <<>>

\* C13: create raises and returns no instance when config is None or base_url
\* is missing or empty; otherwise it returns an instance whose base_url is the
\* configured URL with all trailing slashes removed.
C13_CreateNeedsBaseUrl ==
  [][pc = "new" =>
       IF NoBaseUrl(config)
       THEN pc' = "rejected" /\ caller' = "rejected" /\ base_url' = NoUrl
       ELSE pc' = "idle" /\ caller' = "idle"
            /\ IsStripped(config.base_url, base_url')]_vars

\* an instance was created from a base URL that ended in two slashes
C13_Witness ==
  /\ pc = "idle"
  /\ config.base_url = UsualUrl \o <<"/", "/">>
  /\ base_url = UsualUrl

\* C14: an empty API key is a configuration error raised by create: no
\* instance ever holds an empty api_key, and no request is sent with an empty
\* X-Redmine-API-Key header.
C14_NoInstanceWithoutKey ==
  /\ pc \notin {"new", "rejected"} => api_key # <<>>
  /\ inflight >= 1 => Headers(api_key).X_Redmine_API_Key # <<>>

\* C15: _get_with_auth attempts one request at most MaxAttempts times; it
\* waits for another attempt only after a 429 or a timeout that was not the
\* failure of the last attempt, and the attempt that follows the wait is of
\* the same request; a 429 or timeout leaves it for the caller only as the
\* failure of the last attempt; no other failure is followed by a wait or by
\* another attempt.
C15_RetryOnlyRateLimitOrTimeout ==
  [][/\ inflight' <= MaxAttempts
     /\ (pc' \in Waiting /\ outcome = "" /\ outcome' # "") =>
          /\ outcome' \in {"429", "timeout"}
          /\ inflight >= 1 /\ inflight < MaxAttempts
          /\ inflight' = inflight
          /\ pc' = pc /\ trace' = trace /\ error' = error
     /\ inflight' > 1 =>
          /\ inflight' \in {inflight, inflight + 1}
          /\ inflight' = inflight + 1 =>
               /\ outcome \in {"429", "timeout"}
               /\ outcome' = ""
               /\ pc' = pc /\ trace' = trace /\ error' = error
     /\ (error' # error /\ error' \in {"429", "timeout"}) =>
          \/ inflight = MaxAttempts
          \/ pc = "exit_raised" /\ outcome = error'
     /\ (pc' = "exit_raised" /\ pc # pc' /\ outcome' \in {"429", "timeout"}) =>
          inflight = MaxAttempts]_vars

\* a listing request failed five times with a 429 or a timeout and the last
\* failure was raised
C15_Witness ==
  /\ pc = "raised"
  /\ error \in {"429", "timeout"}
  /\ Last(trace).ev = "fail"

\* C16: in every prefix of the output, each entity_id that a breadcrumb of
\* an emitted entity refers to is the entity_id of an entity emitted earlier
\* in the run (the part of the stream since the current project was yielded
\* holds every parent, the project itself included).
C16_ParentEmittedBeforeChild ==
  LET s == Stream IN
  \A i \in 1..Len(s) :
    \A b \in 1..Len(s[i].breadcrumbs) :
      \E j \in 1..(i - 1) :
        s[j].entity_id = s[i].breadcrumbs[b].entity_id

\* a journal and a wiki page have been emitted, each with a breadcrumb
C16_Witness ==
  /\ \E i \in 1..Len(Stream) :
       Stream[i].kind = "journal" /\ Len(Stream[i].breadcrumbs) = 1
  /\ \E i \in 1..Len(Stream) :
       Stream[i].kind = "wiki" /\ Len(Stream[i].breadcrumbs) = 1

\* the kind of request that fetches the records of a kind of entity
FetchedBy(kind) ==
  CASE kind = "issue" -> "issues"
    [] kind = "journal" -> "journals"
    [] kind = "attachment" -> "attachments"
    [] kind = "wiki" -> "wiki_page"

\* the latest request of a kind before position t of the trace
LatestRequest(kind, t) ==
  IF \E r \in 1..(t - 1) : trace[r].ev = "req" /\ trace[r].kind = kind
  THEN CHOOSE r \in 1..(t - 1) :
         /\ trace[r].ev = "req" /\ trace[r].kind = kind
         /\ \A q \in (r + 1)..(t - 1) : ~(trace[q].ev = "req" /\ trace[q].kind = kind)
  ELSE 0

\* C17: a project is emitted with no breadcrumb and every other entity with
\* exactly one, which refers to the entity its record was fetched under: for
\* an issue or a wiki page the project that the request was made for, which
\* is the project that opened this part of the stream, whatever project the
\* raw record names; for a journal or an attachment the issue that the
\* request was made for, which is the latest issue emitted.
C17_BreadcrumbIsTheFetchPath ==
  LET opener == Stream[1] IN
  \A t \in 1..Len(trace) :
    trace[t].ev = "emit" =>
      LET e == trace[t].entity IN
      IF e.kind = "project"
      THEN e.breadcrumbs = <<>>
      ELSE LET r == LatestRequest(FetchedBy(e.kind), t) IN
           /\ Len(e.breadcrumbs) = 1
           /\ r > 0
           /\ e.kind = "issue" =>
                /\ e.breadcrumbs[1].entity_id = trace[r].target
                /\ e.breadcrumbs[1] =
                     Breadcrumb(opener.entity_id, opener.name, "RedmineProjectEntity")
                /\ e.project_id = opener.project_id
           /\ e.kind = "wiki" =>
                /\ e.breadcrumbs[1].entity_id = EntityId("project", trace[r].target.n, <<>>)
                /\ e.breadcrumbs[1] =
                     Breadcrumb(opener.entity_id, opener.name, "RedmineProjectEntity")
           /\ e.kind \in {"journal", "attachment"} =>
                /\ e.breadcrumbs[1].entity_id = trace[r].target
                /\ e.breadcrumbs[1].entity_type = "RedmineIssueEntity"
                /\ \E j \in 1..(t - 1) :
                     /\ trace[j].ev = "emit"
                     /\ trace[j].entity.kind = "issue"
                     /\ trace[j].entity.entity_id = e.breadcrumbs[1].entity_id
                     /\ \A k \in (j + 1)..(t - 1) :
                          trace[k].ev = "emit" => trace[k].entity.kind # "issue"

\* an issue whose raw record names another project than the one walked has
\* been emitted, and a journal under it
C17_Witness ==
  \E i \in 1..Len(Stream) :
    /\ Stream[i].kind = "issue"
    /\ Stream[i].project_name # Stream[1].name
    /\ \E j \in (i + 1)..Len(Stream) :
         /\ Stream[j].kind = "journal"
         /\ Stream[j].issue_id = Stream[i].issue_id

\* the id of the source record an entity was mapped from
SourceId(e) ==
  CASE e.kind = "project" -> e.project_id
    [] e.kind = "issue" -> e.issue_id
    [] e.kind = "journal" -> e.journal_id
    [] e.kind = "attachment" -> e.attachment_id

\* ids of projects other than p, among them ones whose digits start with p's
OtherProjects(p) == ((1..(Budget + 1)) \cup {10 * p, 10 * p + 1}) \ {p}

\* C18: identifiers are a function of the source record: every emitted
\* project, issue, journal and attachment has the text <kind>-<id> of its
\* record's id, so that equal ids give equal identifiers; and the identifier
\* of an emitted wiki page differs from the one a page of the same title
\* gets in any project with another id.
C18_IdentifiersFollowTheRecord ==
  LET s == Stream IN
  \A i \in 1..Len(s) :
    LET e == s[i]
        id == Format(e.entity_id)
    IN
    IF e.kind = "wiki"
    THEN \A p \in OtherProjects(e.project_id) :
           Format(_create_wiki_page_entity([title |-> e.title], p, <<>>,
                                           EntityId("project", p, <<>>)).entity_id)
             # id
    ELSE /\ id = KindText(e.kind) \o <<"-">> \o Decimal(SourceId(e))
         /\ \A j \in (i + 1)..Len(s) :
              (s[j].kind = e.kind /\ SourceId(s[j]) = SourceId(e)) =>
                Format(s[j].entity_id) = id

\* the second project has been emitted after the first, and a wiki page
\* under it, whose title the first project's index lists too
C18_Witness ==
  /\ {1, 2} \subseteq emitted
  /\ \E i \in 1..Len(Stream) :
       /\ Stream[i].kind = "wiki"
       /\ Stream[i].project_id = 2
       /\ Format(Stream[i].entity_id) = <<"w", "i", "k", "i", "-", "2", "-">> \o WikiTitle(1)

\* C19: no mapper returns an entity whose name or title field is empty or
\* substituted: every emitted issue has the non-empty subject of its record
\* as subject and name, every wiki page a non-empty title, every attachment
\* a non-empty filename, every project a non-empty identifier.
C19_NoEntityWithoutNameOrTitle ==
  \A i \in 1..Len(Stream) :
    LET e == Stream[i] IN
    /\ e.name # <<>>
    /\ e.kind = "project" => e.identifier # <<>>
    /\ e.kind = "issue" => e.subject # <<>> /\ e.name = e.subject
    /\ e.kind = "wiki" => e.title # <<>>
    /\ e.kind = "attachment" => e.filename # <<>>

\* this step issues a request
Issues ==
  \E i \in (Len(trace) + 1)..Len(trace') : trace'[i].ev = "req"

\* C20: at most one request is outstanding.  A request is issued only when
\* none is under way; while one is under way the code is suspended on it and
\* the only things that happen before its response or failure is consumed are
\* the wait that follows a failed attempt, during which no attempt is
\* outstanding, and the next attempt of the same request, made after that
\* wait; a response or failure is consumed only while an attempt is
\* outstanding.
C20_OneRequestAtATime ==
  [][/\ Issues =>
          /\ inflight = 0 /\ inflight' = 1 /\ outcome' = ""
          /\ trace' = Append(trace, Last(trace'))
     /\ inflight >= 1 =>
          /\ pc \in Waiting
          /\ caller = "awaiting"
          /\ inflight' >= 1 =>
               /\ \/ outcome = "" /\ outcome' # "" /\ inflight' = inflight
                  \/ outcome # "" /\ outcome' = "" /\ inflight' = inflight + 1
               /\ trace' = trace /\ pc' = pc
          /\ inflight' = 0 => ~Issues /\ outcome = ""]_vars

\* the second request of a run is at its second attempt
C20_Witness ==
  /\ inflight = 2
  /\ outcome = ""
  /\ Len(Events("req")) = 2
  /\ Last(trace).ev = "req"

\* C21: generate_entities is lazy.  A request, or a further attempt of one,
\* is issued only while the consumer is awaiting the next entity; while the
\* consumer holds an entity and has not asked for the next one nothing is
\* requested, and once it has closed the stream nothing happens in that run
\* but the end of the close itself, which requests nothing: the only step
\* left after it is a new call of generate_entities.
C21_Lazy ==
  [][/\ ((Issues /\ Last(trace').kind # "current_user")
           \/ (inflight >= 1 /\ inflight' > inflight)) =>
          caller = "awaiting" /\ caller' = "awaiting"
     /\ caller = "holding" =>
          /\ trace' = trace /\ asked' = asked /\ inflight' = 0 /\ inflight = 0
          /\ caller' \in {"holding", "awaiting", "closed"}
     /\ pc = "exit_closed" =>
          /\ trace' = trace /\ asked' = asked /\ inflight' = 0 /\ inflight = 0
          /\ pc' \in {"exit_closed", "closed"}
     /\ caller = "closed" =>
          \/ UNCHANGED vars
          \/ pc' = "idle" /\ trace' = <<>> /\ asked' = {} /\ inflight' = 0]_vars

\* the consumer closed the stream right after an issue was emitted, whose
\* journals would have been requested next
C21_Witness ==
  /\ caller = "closed"
  /\ pc = "closed"
  /\ Last(trace).ev = "emit"
  /\ Last(trace).entity.kind = "issue"

\* C22: the client a generate_entities run opened is closed on every exit
\* path: when the run is exhausted, when a listing failure has propagated
\* out of it, and when the consumer has closed the stream, and it is closed
\* before the call ends; a client is open only while a run is in progress.
C22_ClientReleasedOnEveryExit ==
  /\ pc \in {"done", "raised", "closed"} \cup Exiting => client = "closed"
  /\ caller \in {"finished", "failed", "closed"} => client = "closed"
  /\ client = "open" => caller \in {"awaiting", "holding"} /\ pc \notin Exiting

\* the consumer closed the stream after the first project, with the issue
\* listing of that project still to come, and the client is closed
C22_Witness ==
  /\ caller = "closed"
  /\ client = "closed"
  /\ trace # <<>>
  /\ Last(trace).ev = "emit"
  /\ Last(trace).entity.kind = "project"

\* C23: against a server that returns any finite page at every offset and
\* reports any total_count up to a bound, a fully consumed run ends, by
\* exhaustion or by raising; as the run is finite it issues finitely many
\* requests.
C23_EveryRunEnds == <>(pc \in {"done", "raised"})

\* the project listing ended at its third page: the server returned a
\* non-empty page at offsets 0, 100 and 200
C23_Witness ==
  /\ pc = "done"
  /\ ploop.offset = 2 * limit
  /\ ploop.len > 0

\* position t of the trace is the emission of an entity of this kind
EmitAt(t, kind) == trace[t].ev = "emit" /\ trace[t].entity.kind = kind

\* position r of the trace is a request of one of these kinds
ReqAt(r, kinds) == trace[r].ev = "req" /\ trace[r].kind \in kinds

\* the position of the next issue emitted after position t, or the end
NextIssue(t) ==
  IF \E u \in (t + 1)..Len(trace) : EmitAt(u, "issue")
  THEN CHOOSE u \in (t + 1)..Len(trace) :
         EmitAt(u, "issue") /\ \A v \in (t + 1)..(u - 1) : ~EmitAt(v, "issue")
  ELSE Len(trace) + 1

\* the enrichment of the issue emitted at position t is over: another issue
\* followed, or the listing or the wiki was asked for, or the code stands
\* past the enrichment
Enriched(t) ==
  \/ NextIssue(t) <= Len(trace)
  \/ \E r \in (t + 1)..Len(trace) : ReqAt(r, {"issues", "wiki_index"})
  \/ pc \in {"issue_iter", "issue_req", "issue_wait", "wiki_start", "wiki_wait",
              "wiki_iter", "page_wait", "proj_iter", "proj_req", "proj_wait",
              "exit_done", "done"}

\* C24: every journals or attachments request follows an emitted issue and
\* is made for the latest one; between an emitted issue and the next there
\* is at most one journals request and at most one attachments request, the
\* journals first, none of them after a wiki page; an attachments request
\* is issued only with include_attachments on; and once the enrichment of
\* the issue is over there has been exactly one journals request, and
\* exactly one attachments request if and only if the switch is on.
C24_OneEnrichmentPerIssue ==
  /\ \A r \in 1..Len(trace) :
       ReqAt(r, {"journals", "attachments"}) =>
         /\ \E t \in 1..(r - 1) : EmitAt(t, "issue")
         /\ \A w \in 1..(r - 1) : ~EmitAt(w, "wiki")
  /\ \A t \in 1..Len(trace) :
       EmitAt(t, "issue") =>
         LET \* the enrichment requests made for this issue, in order
             er == SelectSeq(SubSeq(trace, t + 1, NextIssue(t) - 1),
                             LAMBDA x : x.ev = "req" /\ x.kind \in {"journals", "attachments"})
         IN /\ Len(er) <= 2
            /\ Len(er) >= 1 => er[1].kind = "journals"
            /\ Len(er) = 2 => er[2].kind = "attachments" /\ SwitchedOn("include_attachments")
            /\ \A r \in 1..Len(er) : er[r].target = trace[t].entity.entity_id
            /\ Enriched(t) =>
                 Len(er) = (IF SwitchedOn("include_attachments") THEN 2 ELSE 1)

\* with attachments on, two issues have been emitted; the first has had its
\* journals request and its attachments request
C24_Witness ==
  /\ SwitchedOn("include_attachments")
  /\ \E t \in 1..Len(trace) :
       /\ EmitAt(t, "issue")
       /\ NextIssue(t) <= Len(trace)
       /\ \E j, a \in (t + 1)..(NextIssue(t) - 1) :
            ReqAt(j, {"journals"}) /\ ReqAt(a, {"attachments"})

\* C25: generate_entities carries no state from one call to the next.  No
\* step of a run changes what the instance holds; every call, the first and
\* one that follows a completed, closed or failed run, starts from the same
\* state, which the instance's configuration alone determines, with nothing
\* observed yet and the same server; and the first request of every call is
\* the project listing at offset 0.  Equal starting states have equal
\* continuations, so a later call produces what a first call produces.
C25_EveryCallStartsAfresh ==
  [][/\ pc # "new" => UNCHANGED <<config, api_key, base_url>>
     /\ (pc = "idle" /\ pc' = "proj_req") =>
          /\ ploop' = [NoProjectLoop EXCEPT !.set = ProjectIdentifiersSet(config)]
          /\ ploop'.offset = 0
          /\ iloop' = NoLoop /\ project' = NoEntity /\ issue' = NoEntity
          /\ items' = <<>> /\ inflight' = 0 /\ outcome' = ""
          /\ trace' = <<>> /\ emitted' = {} /\ asked' = {} /\ logs' = {} /\ error' = ""
          /\ client' = "open"
          /\ srv' = [budget |-> Budget - srv.pN, pN |-> srv.pN, pServed |-> 0,
                     iN |-> 0, iServed |-> 0]
     /\ (Issues /\ asked = {} /\ Last(trace').kind # "current_user") =>
          Last(trace') = Req("projects", NoTarget, 0, "")]_vars

\* a run has ended and generate_entities has been called again: the client
\* of the old run is closed, the new call has not opened its own yet, and
\* nothing of the old run is left
C25_Witness ==
  /\ pc = "idle"
  /\ client = "closed"
  /\ ploop = NoProjectLoop
  /\ trace = <<>>
  /\ ENABLED StartGenerate

\* the page a loop has just walked was its last: it was empty, or its offset
\* plus its length reached the total_count that came with it
WasLast(loop) == loop.len = 0 \/ loop.offset + loop.len >= loop.total_count

\* C26: a listing loop asks for its first page at offset 0; it asks for a
\* further page only when the page before is walked to its end and was not
\* the last, and then at the offset of that page plus 100; after a page that
\* was the last (empty, or offset + length >= total_count, a missing
\* total_count being 0) it leaves the loop without another request.
C26_NextPageOnlyAfterAShortfall ==
  [][/\ (Issues /\ Last(trace').kind \in {"projects", "issues"}) =>
          LET new == Last(trace')
              loop == IF new.kind = "projects" THEN ploop ELSE iloop
              first == IF new.kind = "projects" THEN "projects" \notin asked
                       ELSE \A r \in 1..Len(trace) : ~ReqAt(r, {"issues"})
          IN /\ new.offset = loop.offset
             /\ loop.page = <<>>
             /\ IF first THEN new.offset = 0
                ELSE /\ new.offset >= limit
                     /\ ~WasLast([loop EXCEPT !.offset = new.offset - limit])
                     /\ new.kind = "issues" =>
                          \E r \in 1..Len(trace) :
                            /\ ReqAt(r, {"issues"})
                            /\ trace[r].offset = new.offset - limit
                            /\ \A q \in (r + 1)..Len(trace) : ~ReqAt(q, {"issues"})
     /\ (pc = "proj_iter" /\ ploop.page = <<>> /\ WasLast(ploop)) =>
          pc' \in {"proj_iter", "exit_done", "done"} /\ ~Issues
     /\ (pc = "issue_iter" /\ iloop.page = <<>> /\ WasLast(iloop)) =>
          pc' \in {"issue_iter", "wiki_start"} /\ ~Issues
     /\ (pc = "proj_iter" /\ ploop.page = <<>> /\ ~WasLast(ploop)) =>
          pc' \in {"proj_iter", "proj_req"} /\ ploop'.offset \in {ploop.offset, ploop.offset + limit}
     /\ (pc = "issue_iter" /\ iloop.page = <<>> /\ ~WasLast(iloop)) =>
          pc' \in {"issue_iter", "issue_req"} /\ iloop'.offset \in {iloop.offset, iloop.offset + limit}
    ]_vars

\* the project listing has asked for its third page, at offset 200
C26_Witness ==
  /\ pc = "proj_wait"
  /\ Last(trace) = Req("projects", NoTarget, 2 * limit, "")
  /\ ploop.len > 0

\* every issue emitted so far under the current project has had its journals
\* request, and its attachments request if these are on, and nothing of an
\* enrichment is pending
IssuesEnriched ==
  /\ items = <<>>
  /\ inflight = 0
  /\ \A t \in 1..Len(trace) :
       EmitAt(t, "issue") =>
         /\ \E r \in (t + 1)..(NextIssue(t) - 1) : ReqAt(r, {"journals"})
         /\ SwitchedOn("include_attachments") =>
              \E r \in (t + 1)..(NextIssue(t) - 1) : ReqAt(r, {"attachments"})

\* the walk of the project yielded last is over: its issue listing has been
\* requested and has ended, its issues are enriched, and its wiki index has
\* been requested unless the wiki is switched off
ProjectDone ==
  (\E t \in 1..Len(trace) : EmitAt(t, "project")) =>
    /\ \E r \in 1..Len(trace) : ReqAt(r, {"issues"})
    /\ iloop.page = <<>>
    /\ WasLast(iloop)
    /\ IssuesEnriched
    /\ ~SwitchedOff("include_wiki_pages") =>
         \E r \in 1..Len(trace) : ReqAt(r, {"wiki_index"})

\* C27: no page is prefetched.  A project is yielded, and a project page is
\* requested, only when the walk of the project before it is over, and a
\* project page only when every project of the page before has been walked;
\* an issue page is requested only when every issue of the page before has
\* been yielded and enriched.
C27_NoPrefetch ==
  [][/\ (Issues /\ Last(trace').kind = "projects") =>
          ploop.page = <<>> /\ ProjectDone
     /\ (trace' # trace /\ Len(trace') = 1 /\ trace'[1].ev = "emit") =>
          ProjectDone
     /\ (Issues /\ Last(trace').kind = "issues") =>
          iloop.page = <<>> /\ IssuesEnriched]_vars

\* the second issue page of a project is asked for after the issue of the
\* first page has been enriched
C27_Witness ==
  /\ pc = "issue_wait"
  /\ Last(trace).offset = limit
  /\ \E t \in 1..Len(trace) : EmitAt(t, "issue")
  /\ \E r \in 1..Len(trace) : ReqAt(r, {"journals"})


\* the step ends the request of a wiki page without a page to yield
PageGivenUp ==
  /\ pc = "page_wait"
  /\ pc' # "page_wait"
  /\ ~(Len(trace') > Len(trace) /\ trace'[Len(trace')].ev = "emit")

\* C28: a wiki page whose fetch or mapping fails is skipped alone: the step
\* logs a warning and goes on to the rest of the index, whose entries are
\* left as they were, it takes back nothing of what was emitted or
\* recorded, and it raises nothing; every page request asks for the first
\* entry left of the index; and while the first entry left has no title no
\* request is sent for it
C28_FailedPageSkipsOnlyItself ==
  [][ /\ PageGivenUp =>
           /\ pc' = "wiki_iter"
           /\ items' = Tail(items)
           /\ caller' = caller /\ error' = error /\ client' = client
           /\ emitted' = emitted
           /\ Len(trace') > Len(trace)
           /\ SubSeq(trace', 1, Len(trace)) = trace
           /\ trace'[Len(trace')] = Log("warning", "wiki_page")
      /\ (pc = "wiki_iter" /\ pc' = "page_wait") =>
           /\ items' = items
           /\ trace' = Append(trace, Req("wiki_page",
                          EntityId("wiki", project.project_id, Head(items).title), 0, ""))
      /\ (pc = "wiki_iter" /\ items # <<>> /\ ~HasText(Head(items), "title")) =>
           /\ trace' = trace /\ asked' = asked /\ inflight' = inflight
           /\ pc' \in {"wiki_iter", "exit_closed", "closed"}
    ]_vars

\* the first page of an index was given up, the second was requested after
\* it and emitted
C28_Witness ==
  \E a, b, c \in 1..Len(trace) :
    /\ a < b /\ b < c
    /\ trace[a] = Log("warning", "wiki_page")
    /\ trace[b].ev = "req" /\ trace[b].kind = "wiki_page"
    /\ trace[c].ev = "emit" /\ trace[c].entity.entity_id.k = "wiki"
    /\ pc # "raised"

\* C29: every wiki page emitted carries the identifier made of the project
\* and of the title that its request asked for, which is the title of its
\* index entry, and no two pages emitted for the project carry the same
\* identifier
C29_WikiIdsFollowTheIndex ==
  \A c \in 1..Len(trace) :
    EmitAt(c, "wiki") =>
      /\ LatestRequest("wiki_page", c) # 0
      /\ Format(trace[c].entity.entity_id) = Format(trace[LatestRequest("wiki_page", c)].target)
      /\ \A d \in 1..Len(trace) :
           (d # c /\ EmitAt(d, "wiki")) =>
             Format(trace[d].entity.entity_id) # Format(trace[c].entity.entity_id)

\* C30: an instance that create has returned holds a base_url that is not
\* empty and does not end with a slash
C30_BaseUrlNeverEmpty ==
  pc \notin {"new", "rejected"} =>
    /\ base_url # <<>>
    /\ base_url[Len(base_url)] # "/"


====
